---- MODULE Spec2Model ----
(***************************************************************************)
(* Submission deduplication and batching engine of the CircleCI -> Datadog *)
(* custom-metrics exporter: WorkflowCache (the JSON ledger of workflow ids *)
(* already sent) and DatadogService.submitMetrics (pair, window, filter,   *)
(* log, submit, mark).                                                     *)
(*                                                                         *)
(* Granularity: JavaScript runs the synchronous code between two awaits    *)
(* without interleaving, so one action is one such stretch.  The only      *)
(* await of submitMetrics is the metricsApi.submitMetrics call.            *)
(***************************************************************************)
EXTENDS Integers, Sequences, FiniteSets, TLC

(* ------------------------------ bounds -------------------------------- *)

\* workflow ids are "workflow-1" .. "workflow-NumIds", written 1 .. NumIds
NumIds == 3

\* longest payload.series / workflowIds array a caller passes
MaxLen == 3

\* largest batchSize option a caller passes (absent selects the default)
MaxBatch == 2

\* the tally of confirmed transport calls per id saturates here
TallyCap == 2

\* ticks of time per millisecond of Date
TicksPerMs == 2

\* the time up to which log files are written
MaxTime == 5

\* most .json files in the data directory
MaxFiles == 3

(* --------------------------- program constants ------------------------ *)

\* this.batchSize = options?.batchSize ?? 10
DefaultBatchSize == 10

\* the milliseconds field of toISOString counts up to here
MsPerSecond == 1000

(* ------------------------------ inputs -------------------------------- *)

WorkflowIds == 1 .. NumIds

\* an optional field of the options object: given or absent
Given(v) == [given |-> TRUE, value |-> v]
Undefined(v) == [given |-> FALSE, value |-> v]

\* a ?? fallback
OrElse(opt, fallback) == IF opt.given THEN opt.value ELSE fallback

\* The series of the test payloads, told apart by their point value in
\* tenths (15.5, 16.5, 17.5, ...).  The service never inspects a series.
SeriesValue(k) == 145 + 10 * k

\* payload.series arrays: the first n series of the test payload
Payloads == { [k \in 1 .. n |-> SeriesValue(k)] : n \in 0 .. MaxLen }

\* workflowIds arrays
IdLists == UNION { [1 .. n -> WorkflowIds] : n \in 0 .. MaxLen }

\* workflowIds arrays passed with a payload of another length: the early
\* length check reads nothing but the two lengths
CountingIds == { [k \in 1 .. n |-> k] : n \in 0 .. MaxLen }

\* the (payload.series, workflowIds) arguments of a submitMetrics call
Arguments ==
    { a \in Payloads \X IdLists : Len(a[1]) = Len(a[2]) }
      \cup { a \in Payloads \X CountingIds : Len(a[1]) # Len(a[2]) }

BatchSizeOptions == { Undefined(0) } \cup { Given(b) : b \in 1 .. MaxBatch }

DryRunOptions == { Undefined(FALSE), Given(FALSE), Given(TRUE) }

\* the dryRun options of a live deployment (DRY_RUN unset or not "true")
LiveOptions == { Undefined(FALSE), Given(FALSE) }

\* what metricsApi.submitMetrics may reject with: an Error, or any value
Rejections ==
    { [isError |-> TRUE, message |-> "API Error"],
      [isError |-> FALSE, message |-> "Unknown error"] }

(* ------------------------------ helpers ------------------------------- *)

Range(s) == { s[k] : k \in 1 .. Len(s) }

Min(a, b) == IF a < b THEN a ELSE b

\* a window one element short of the loop's stride
SliceShort(s, from, to) ==
    [k \in 1 .. (Min(to - 1, Len(s)) - Min(from, Len(s))) |-> s[from + k]]

\* a window that runs to the end of the array
SliceToEnd(s, from, to) ==
    [k \in 1 .. (Len(s) - Min(from, Len(s))) |-> s[from + k]]

\* Array.prototype.slice(from, to) with 0-based bounds, 0 <= from
Slice(s, from, to) ==
    [k \in 1 .. (Min(to, Len(s)) - Min(from, Len(s))) |-> s[from + k]]

\* the list as it is, repeats and all
DedupNone(s) == s

\* [...new Set(s)]: first occurrences, in insertion order
RECURSIVE Dedup(_)
Dedup(s) ==
    IF s = <<>> THEN <<>>
    ELSE LET front == Dedup(SubSeq(s, 1, Len(s) - 1))
             last == s[Len(s)]
         IN  IF last \in Range(front) THEN front ELSE Append(front, last)

(* ------------------------- WorkflowCache ------------------------------ *)

Filenames ==
    { "sent-workflows.json", "sent-workflows-dry-run.json",
      "sent-workflows-test.json", "sent-workflows-dry-run-test.json" }

\* the cache file of the WorkflowCache tests
testFilename == "workflow-cache-test.json"

CacheFiles == Filenames \cup { testFilename }

Absent == [kind |-> "absent", sent |-> <<>>]
Malformed == [kind |-> "malformed", sent |-> <<>>]
Json(sent) == [kind |-> "json", sent |-> sent]

\* WorkflowCache.ensureCacheExists
ensureCacheExists(fs, f) ==
    IF fs[f].kind = "absent" THEN [fs EXCEPT ![f] = Json(<<>>)] ELSE fs

\* JSON.parse(readFileSync(path)) followed by a use of data.sent throws
ReadThrows(fs, f) == fs[f].kind # "json"

\* a hasBeenSent that answers true when the file cannot be read
hasBeenSentClosed(fs, f, workflowId) ==
    ReadThrows(fs, f) \/ workflowId \in Range(fs[f].sent)

\* a hasBeenSent that finds nothing
hasBeenSentNever(fs, f, workflowId) == FALSE

\* WorkflowCache.hasBeenSent
hasBeenSent(fs, f, workflowId) ==
    IF ReadThrows(fs, f) THEN FALSE ELSE workflowId \in Range(fs[f].sent)

\* a markAsSent that writes the ids it was given and drops the stored ones
markAsSentOverwrites(fs, f, workflowIds) ==
    [threw |-> ReadThrows(fs, f),
     files |-> IF ReadThrows(fs, f) THEN fs
               ELSE [fs EXCEPT ![f] = Json(Dedup(workflowIds))]]

\* a markAsSent that computes the new list and never writes it
markAsSentUnwritten(fs, f, workflowIds) ==
    [threw |-> ReadThrows(fs, f), files |-> fs]

\* WorkflowCache.markAsSent: the files afterwards, and whether it threw
markAsSent(fs, f, workflowIds) ==
    IF ReadThrows(fs, f)
    THEN [threw |-> TRUE, files |-> fs]
    ELSE [threw |-> FALSE,
          files |-> [fs EXCEPT ![f] = Json(Dedup(fs[f].sent \o workflowIds))]]

\* a filter that also drops the repeats of an id
filterNewWorkflowsOnce(fs, f, workflowIds) ==
    Dedup(SelectSeq(workflowIds, LAMBDA id : ~hasBeenSent(fs, f, id)))

\* WorkflowCache.filterNewWorkflows
filterNewWorkflows(fs, f, workflowIds) ==
    SelectSeq(workflowIds, LAMBDA id : ~hasBeenSent(fs, f, id))

\* the set of ids a ledger file records
SentSet(fs, f) == IF fs[f].kind = "json" THEN Range(fs[f].sent) ELSE {}

(* ------------------------- DatadogService ----------------------------- *)

VARIABLES
    nodeEnv,      \* process.env.NODE_ENV
    files,        \* cache/<filename> -> content
    service,      \* the DatadogService instance the caller holds
    pc,           \* submitMetrics: "idle", "awaiting", "done", "failed"
    payload,      \* its argument payload.series
    workflowIds,  \* its argument workflowIds
    i,            \* its loop variable, at the await
    calls,        \* metricsApi.submitMetrics calls of this submit call
    audit,        \* logMetricPayload calls of this submit call
    error,        \* what the submit call threw
    reads,        \* ledger file reads of this submit call
    writes,       \* ledger file writes of this submit call
    sentAtStart,  \* data.sent of the service's ledger when the call began
    okCount,      \* id -> transport calls holding it that returned success
    caughtValue,  \* what the catch block of the submit call caught
    cacheCall,    \* the last call made on a WorkflowCache directly
    time,         \* the time, in ticks finer than Date's millisecond
    logDir,       \* log/<name>.log -> the payload logged there
    logCount,     \* the logMetricPayload calls made so far
    records,      \* the argument of transformToDatadogMetric
    metric,       \* what transformToDatadogMetric returned
    variants,     \* the two submitMetrics variants run over one input
    logFails,     \* whether logMetricPayload throws (log/ cannot be written)
    other,        \* a submitMetrics call begun while another one awaits
    race,         \* markAsSent calls of several processes on one cache file
    loop,         \* the for loop of submitMetrics, one iteration at a time
    run           \* main() of the entry point over the data files

vars == <<nodeEnv, files, service, pc, payload, workflowIds, i, calls, audit,
          error, reads, writes, sentAtStart, okCount, caughtValue,
          cacheCall, time, logDir, logCount, records, metric, variants,
          logFails, other, race, loop, run>>

\* the variables of the parts of the exporter around the service
sideVars == <<logFails, other, race, loop, run>>

unitVars == <<time, logDir, logCount, records, metric, variants, sideVars>>

NoOther ==
    [pc |-> "idle", payload |-> <<>>, workflowIds |-> <<>>, i |-> 0,
     calls |-> <<>>]

NoRace == [started |-> FALSE]

NoLoop == [started |-> FALSE]

NoRun == [started |-> FALSE]

SideInit ==
    /\ logFails = FALSE
    /\ other = NoOther
    /\ race = NoRace
    /\ loop = NoLoop
    /\ run = NoRun

NoMetric == [returned |-> FALSE, series |-> <<>>, workflowIds |-> <<>>]

NoVariants == [ran |-> FALSE]

UnitInit ==
    /\ time = 0
    /\ logDir = << >>
    /\ logCount = 0
    /\ records = <<>>
    /\ metric = NoMetric
    /\ variants = NoVariants
    /\ SideInit

NoService == [dryRun |-> FALSE, batchSize |-> 0, filename |-> "none"]

NoError == [message |-> "none", args |-> <<>>]

NoCaught == [isError |-> FALSE, message |-> "none"]

NoCacheCall ==
    [op |-> "none", filename |-> "none", arg |-> <<>>, found |-> FALSE,
     returned |-> <<>>, threw |-> FALSE, before |-> Absent]

\* one cache file per environment, whatever the mode
CacheFilenameShared(dryRun, env) ==
    IF env = "test" THEN "sent-workflows-test.json" ELSE "sent-workflows.json"

\* one cache file per mode, whatever the environment
CacheFilenameAnyEnv(dryRun, env) ==
    IF dryRun THEN "sent-workflows-dry-run.json" ELSE "sent-workflows.json"

\* constructor, lines 18-21
CacheFilename(dryRun, env) ==
    IF env = "test"
    THEN (IF dryRun THEN "sent-workflows-dry-run-test.json"
                    ELSE "sent-workflows-test.json")
    ELSE (IF dryRun THEN "sent-workflows-dry-run.json"
                    ELSE "sent-workflows.json")

\* options?.dryRun ?? false, options?.batchSize ?? 10
NewService(dryRunOpt, batchSizeOpt, env) ==
    LET dryRun == OrElse(dryRunOpt, FALSE)
    IN  [dryRun |-> dryRun,
         batchSize |-> OrElse(batchSizeOpt, DefaultBatchSize),
         filename |-> CacheFilename(dryRun, env)]

\* payload.series.map((series, index) => ({payload, workflowId}))
Paired(series, ids) ==
    [k \in 1 .. Len(series) |-> [payload |-> series[k], workflowId |-> ids[k]]]

\* a window sent whole, whatever the ledger holds
NewWorkflowPairsUnfiltered(fs, f, batch) == batch

\* the ids filtered, the series taken by position (the earlier batching)
NewWorkflowPairsPositional(fs, f, batch) ==
    LET ids == SelectSeq([k \in 1 .. Len(batch) |-> batch[k].workflowId],
                         LAMBDA id : ~hasBeenSent(fs, f, id))
    IN  [k \in 1 .. Len(ids) |-> [payload |-> batch[k].payload,
                                  workflowId |-> ids[k]]]

\* a filter that keeps the first pair of an id in the window only
NewWorkflowPairsOnce(fs, f, batch) ==
    LET kept == SelectSeq(batch, LAMBDA pair : ~hasBeenSent(fs, f, pair.workflowId))
    IN  SelectSeq(kept, LAMBDA pair :
            pair = CHOOSE q \in Range(kept) :
                     /\ q.workflowId = pair.workflowId
                     /\ \A r \in Range(kept) :
                           r.workflowId = pair.workflowId => q.payload <= r.payload)

\* batch.filter(pair => !this.workflowCache.hasBeenSent(pair.workflowId))
NewWorkflowPairs(fs, f, batch) ==
    SelectSeq(batch, LAMBDA pair : ~hasBeenSent(fs, f, pair.workflowId))

\* the series of the sub-batch, last first
PairPayloadsReversed(pairs) ==
    [k \in 1 .. Len(pairs) |-> pairs[Len(pairs) + 1 - k].payload]

\* newWorkflowPairs.map(pair => pair.payload), .map(p => p.workflowId)
PairPayloads(pairs) == [k \in 1 .. Len(pairs) |-> pairs[k].payload]
PairIds(pairs) == [k \in 1 .. Len(pairs) |-> pairs[k].workflowId]

\* a catch block that throws the generic error for whatever it caught
RethrownGeneric(caught) ==
    [message |-> "Unknown error submitting metrics", args |-> <<>>]

\* what the catch block of submitMetrics throws for a caught value
Rethrown(caught) ==
    IF caught.isError
    THEN [message |-> caught.message, args |-> <<>>]
    ELSE [message |-> "Unknown error submitting metrics", args |-> <<>>]

\* the console.error line of the catch block: the one classification of a
\* caught value that submitMetrics makes
CatchLabel(caught) ==
    IF caught.isError THEN "Error submitting metrics:"
                      ELSE "Unknown error submitting metrics:"

\* fs errors are Error instances
FsError == [isError |-> TRUE, message |-> "fs error"]

RECURSIVE ProcessBatches(_, _, _, _)

\* a logMetricPayload that writes nothing
logMetricPayloadNever(au, series) == au

\* this.logMetricPayload(batchPayload), as the submit call's record of it
logMetricPayload(au, series) == Append(au, series)

\* mkdirSync or writeFileSync of logMetricPayload throws: the call is made
\* before the try block, so what it throws leaves submitMetrics as it is
logMetricPayloadThrows == logFails

\* a service that calls the API whatever its dryRun flag says
CallsTransportAlways(svc) == TRUE

\* if (!this.dryRun) await this.metricsApi.submitMetrics({ body })
CallsTransport(svc) == ~svc.dryRun

\* a catch block that still marks the sub-batch it failed to send
CatchBlockMarks(svc, paired, at, st, caught) ==
    LET batch == Slice(paired, at, at + svc.batchSize)
        new == NewWorkflowPairs(st.files, svc.filename, batch)
    IN  [st EXCEPT !.pc = "failed", !.i = at, !.error = Rethrown(caught),
                   !.caught = caught,
                   !.files = markAsSent(@, svc.filename, PairIds(new)).files]

\* a catch block that logs the error and goes on with the next window
CatchBlockContinues(svc, paired, at, st, caught) ==
    ProcessBatches(svc, paired, at + svc.batchSize, st)

\* The catch block around the await and markAsSent, entered from the
\* window at loop variable `at`: the throw leaves the loop
CatchBlock(svc, paired, at, st, caught) ==
    [st EXCEPT !.pc = "failed", !.i = at, !.error = Rethrown(caught),
               !.caught = caught]

\* The for loop of submitMetrics from loop variable `at` up to its next
\* await, return or throw.  st carries files, audit, reads and writes.
ProcessBatches(svc, paired, at, st) ==
    IF at >= Len(paired)
    THEN [st EXCEPT !.pc = "done", !.i = at]
    ELSE
      LET batch == Slice(paired, at, at + svc.batchSize)
          new == NewWorkflowPairs(st.files, svc.filename, batch)
          read == [st EXCEPT !.reads = @ + Len(batch)]
      IN  IF Len(new) = 0
          THEN ProcessBatches(svc, paired, at + svc.batchSize, read)
          ELSE IF logMetricPayloadThrows
          THEN [read EXCEPT !.pc = "failed", !.i = at,
                            !.error = [message |-> FsError.message,
                                       args |-> <<>>]]
          ELSE
            LET logged == [read EXCEPT
                             !.audit = logMetricPayload(@, PairPayloads(new))]
            IN  IF CallsTransport(svc)
                THEN [logged EXCEPT !.pc = "awaiting", !.i = at, !.pending = new]
                ELSE
                  LET m == markAsSent(logged.files, svc.filename, PairIds(new))
                  IN  IF m.threw
                      THEN CatchBlock(svc, paired, at,
                             [logged EXCEPT !.reads = @ + 1], FsError)
                      ELSE ProcessBatches(svc, paired, at + svc.batchSize,
                             [logged EXCEPT !.files = m.files,
                                            !.reads = @ + 1,
                                            !.writes = @ + 1])

\* the state a stretch of submitMetrics starts from
Stretch(fs, au, rd, wr) ==
    [pc |-> "running", i |-> 0, files |-> fs, audit |-> au, reads |-> rd,
     writes |-> wr, pending |-> <<>>, error |-> NoError, caught |-> NoCaught]

\* the call a stretch ends on, if it ends on the await
Issued(r) ==
    IF r.pc = "awaiting"
    THEN <<[body |-> PairPayloads(r.pending), workflowIds |-> PairIds(r.pending),
            result |-> "pending"]>>
    ELSE <<>>

Init ==
    /\ nodeEnv = "test"
    /\ files = [f \in CacheFiles |-> Absent]
    /\ service = NoService
    /\ pc = "idle"
    /\ payload = <<>>
    /\ workflowIds = <<>>
    /\ i = 0
    /\ calls = <<>>
    /\ audit = <<>>
    /\ error = NoError
    /\ reads = 0
    /\ writes = 0
    /\ sentAtStart = <<>>
    /\ okCount = [id \in WorkflowIds |-> 0]
    /\ caughtValue = NoCaught
    /\ cacheCall = NoCacheCall
    /\ UnitInit

\* new DatadogService(options): the WorkflowCache is built (and its file
\* created) before the DD_API_KEY check throws
Construct(dryRunOpt, batchSizeOpt, hasApiKey) ==
    /\ pc = "idle"
    /\ LET svc == NewService(dryRunOpt, batchSizeOpt, nodeEnv)
       IN  /\ files' = ensureCacheExists(files, svc.filename)
           /\ service' = IF hasApiKey THEN svc ELSE service
    /\ pc' = "idle"
    /\ payload' = <<>>
    /\ workflowIds' = <<>>
    /\ i' = 0
    /\ calls' = <<>>
    /\ audit' = <<>>
    /\ error' = NoError
    /\ reads' = 0
    /\ writes' = 0
    /\ sentAtStart' = <<>>
    /\ caughtValue' = NoCaught
    /\ cacheCall' = NoCacheCall
    /\ UNCHANGED <<nodeEnv, okCount>>
    /\ UNCHANGED unitVars

\* payload.series.length !== workflowIds.length
LengthsMismatchOneSided(series, ids) == Len(series) > Len(ids)
LengthsMismatch(series, ids) == Len(series) # Len(ids)

\* service.submitMetrics(payload, workflowIds) up to its first await.  The
\* caller serializes its calls; after a call has settled it either repeats
\* the same call or lets go of the result (Settle) before another one.
SubmitMetrics(series, ids) ==
    /\ service # NoService
    /\ \/ pc = "idle"
       \/ pc \in {"done", "failed"} /\ series = payload /\ ids = workflowIds
    /\ payload' = series
    /\ workflowIds' = ids
    /\ sentAtStart' = files[service.filename].sent
    /\ IF LengthsMismatch(series, ids)
       THEN /\ pc' = "failed"
            /\ error' = [message |-> "Mismatch between series and workflow IDs",
                         args |-> <<Len(series), Len(ids)>>]
            /\ i' = 0
            /\ calls' = <<>>
            /\ audit' = <<>>
            /\ reads' = 0
            /\ writes' = 0
            /\ caughtValue' = NoCaught
            /\ UNCHANGED files
       ELSE LET r == ProcessBatches(service, Paired(series, ids), 0,
                                    Stretch(files, <<>>, 0, 0))
            IN  /\ pc' = r.pc
                /\ error' = r.error
                /\ i' = r.i
                /\ calls' = Issued(r)
                /\ audit' = r.audit
                /\ reads' = r.reads
                /\ writes' = r.writes
                /\ files' = r.files
                /\ caughtValue' = r.caught
    /\ cacheCall' = NoCacheCall
    /\ UNCHANGED <<nodeEnv, service, okCount>>
    /\ UNCHANGED unitVars

\* the tally after a transport call holding ids returned success
Tally(count, ids) ==
    [id \in WorkflowIds |->
        IF id \in Range(ids) THEN Min(count[id] + 1, TallyCap) ELSE count[id]]

\* metricsApi.submitMetrics resolves: mark the sub-batch, go on with the loop
TransportResolves ==
    /\ pc = "awaiting"
    /\ LET call == calls[Len(calls)]
           done == [calls EXCEPT ![Len(calls)].result = "ok"]
           m == markAsSent(files, service.filename, call.workflowIds)
       IN  /\ okCount' = Tally(okCount, call.workflowIds)
           /\ IF m.threw
              THEN LET r == CatchBlock(service, Paired(payload, workflowIds), i,
                                       Stretch(files, audit, reads + 1, writes),
                                       FsError)
                   IN  /\ pc' = r.pc
                       /\ error' = r.error
                       /\ i' = r.i
                       /\ calls' = done \o Issued(r)
                       /\ audit' = r.audit
                       /\ reads' = r.reads
                       /\ writes' = r.writes
                       /\ files' = r.files
                       /\ caughtValue' = r.caught
              ELSE LET r == ProcessBatches(service, Paired(payload, workflowIds),
                                           i + service.batchSize,
                                           Stretch(m.files, audit, reads + 1,
                                                   writes + 1))
                   IN  /\ pc' = r.pc
                       /\ error' = r.error
                       /\ i' = r.i
                       /\ calls' = done \o Issued(r)
                       /\ audit' = r.audit
                       /\ reads' = r.reads
                       /\ writes' = r.writes
                       /\ files' = r.files
                       /\ caughtValue' = r.caught
    /\ UNCHANGED <<nodeEnv, service, payload, workflowIds, sentAtStart,
                   cacheCall>>
    /\ UNCHANGED unitVars

\* metricsApi.submitMetrics rejects: the catch block rethrows
TransportRejects(caught) ==
    /\ pc = "awaiting"
    /\ LET rejected == [calls EXCEPT ![Len(calls)].result = "rejected"]
           r == CatchBlock(service, Paired(payload, workflowIds), i,
                           Stretch(files, audit, reads, writes), caught)
       IN  /\ pc' = r.pc
           /\ error' = r.error
           /\ i' = r.i
           /\ calls' = rejected \o Issued(r)
           /\ audit' = r.audit
           /\ reads' = r.reads
           /\ writes' = r.writes
           /\ files' = r.files
           /\ caughtValue' = r.caught
    /\ UNCHANGED <<nodeEnv, service, payload, workflowIds, sentAtStart, okCount,
                   cacheCall>>
    /\ UNCHANGED unitVars

\* the caller is done with the settled promise of its submitMetrics call
Settle ==
    /\ pc \in {"done", "failed"}
    /\ pc' = "idle"
    /\ payload' = <<>>
    /\ workflowIds' = <<>>
    /\ i' = 0
    /\ calls' = <<>>
    /\ audit' = <<>>
    /\ error' = NoError
    /\ reads' = 0
    /\ writes' = 0
    /\ sentAtStart' = <<>>
    /\ caughtValue' = NoCaught
    /\ UNCHANGED <<nodeEnv, files, service, okCount, cacheCall>>
    /\ UNCHANGED unitVars

\* what happens besides the construction of a service
Calls ==
    \/ \E a \in Arguments : SubmitMetrics(a[1], a[2])
    \/ TransportResolves
    \/ \E caught \in Rejections : TransportRejects(caught)
    \/ Settle

Next ==
    \/ \E d \in DryRunOptions, b \in BatchSizeOptions, k \in BOOLEAN :
          Construct(d, b, k)
    \/ Calls

\* live and dry-run services over the same cache directory
Spec == Init /\ [][Next]_vars

NextLive ==
    \/ \E d \in LiveOptions, b \in BatchSizeOptions, k \in BOOLEAN :
          Construct(d, b, k)
    \/ Calls

\* a live deployment: every service is constructed without dryRun
SpecLive == Init /\ [][NextLive]_vars

\* a later run of the exporter: the service of the settled call is gone and
\* a new one is constructed over the same cache directory
Restart(dryRunOpt, batchSizeOpt) ==
    /\ pc \in {"done", "failed"}
    /\ LET svc == NewService(dryRunOpt, batchSizeOpt, nodeEnv)
       IN  /\ files' = ensureCacheExists(files, svc.filename)
           /\ service' = svc
    /\ pc' = "idle"
    /\ payload' = <<>>
    /\ workflowIds' = <<>>
    /\ i' = 0
    /\ calls' = <<>>
    /\ audit' = <<>>
    /\ error' = NoError
    /\ reads' = 0
    /\ writes' = 0
    /\ sentAtStart' = <<>>
    /\ caughtValue' = NoCaught
    /\ cacheCall' = NoCacheCall
    /\ UNCHANGED <<nodeEnv, okCount>>
    /\ UNCHANGED unitVars

\* the submitMetrics call of an instance that has made none yet
FirstCall(series, ids) == pc = "idle" /\ SubmitMetrics(series, ids)

NextRestart ==
    \/ \E d \in LiveOptions, b \in BatchSizeOptions, k \in BOOLEAN :
          Construct(d, b, k)
    \/ \E d \in LiveOptions, b \in BatchSizeOptions : Restart(d, b)
    \/ \E a \in Arguments : FirstCall(a[1], a[2])
    \/ TransportResolves
    \/ \E caught \in Rejections : TransportRejects(caught)

\* live runs of the exporter, one submitMetrics call per service instance
SpecRestart == Init /\ [][NextRestart]_vars

\* the caller repeats a submitMetrics call that failed, with the same
\* arguments
Retry == pc = "failed" /\ SubmitMetrics(payload, workflowIds)

\* the caller lets go of a call that returned without error
SettleDone == pc = "done" /\ Settle

NextRetry ==
    \/ \E d \in LiveOptions, b \in BatchSizeOptions, k \in BOOLEAN :
          Construct(d, b, k)
    \/ \E a \in Arguments : FirstCall(a[1], a[2])
    \/ Retry
    \/ TransportResolves
    \/ \E caught \in Rejections : TransportRejects(caught)
    \/ SettleDone

\* a live caller that repeats every failed call until it returns, over a
\* transport that does not reject for ever
SpecRetry ==
    /\ Init
    /\ [][NextRetry]_vars
    /\ WF_vars(Retry)
    /\ SF_vars(TransportResolves)

\* the dryRun options of a dry run (DRY_RUN=true)
DryOptions == { Given(TRUE) }

NextDry ==
    \/ \E d \in DryOptions, b \in BatchSizeOptions, k \in BOOLEAN :
          Construct(d, b, k)
    \/ \E a \in Arguments : SubmitMetrics(a[1], a[2])
    \/ Settle

\* a dry run: every service is constructed with dryRun: true
SpecDry == Init /\ [][NextDry]_vars

(* ------------------- WorkflowCache, called directly ------------------- *)

serviceVars ==
    <<service, pc, payload, workflowIds, i, calls, audit, error, reads, writes,
      sentAtStart, okCount, caughtValue>>

\* the record of a call on the WorkflowCache over file f
CacheCall(op, f, arg) ==
    [NoCacheCall EXCEPT !.op = op, !.filename = f, !.arg = arg,
                        !.before = files[f]]

\* A WorkflowCache holds nothing but its path, so a call on an old instance
\* is a call on a new one over the same file: the caller makes one method
\* call per instance it has built (or had its file removed under).
Callable == cacheCall.filename # "none" /\ cacheCall.op \in {"none", "new"}

\* cache = new WorkflowCache(f)
CacheNew(f) ==
    /\ pc = "idle"
    /\ files' = ensureCacheExists(files, f)
    /\ cacheCall' = CacheCall("new", f, <<>>)
    /\ UNCHANGED <<nodeEnv, serviceVars>>
    /\ UNCHANGED unitVars

\* cache.hasBeenSent(workflowId)
CacheHasBeenSent(workflowId) ==
    /\ pc = "idle"
    /\ Callable
    /\ cacheCall' =
          [CacheCall("hasBeenSent", cacheCall.filename, <<workflowId>>)
             EXCEPT !.found = hasBeenSent(files, cacheCall.filename, workflowId)]
    /\ UNCHANGED <<nodeEnv, files, serviceVars>>
    /\ UNCHANGED unitVars

\* cache.markAsSent(ids)
CacheMarkAsSent(ids) ==
    /\ pc = "idle"
    /\ Callable
    /\ LET m == markAsSent(files, cacheCall.filename, ids)
       IN  /\ files' = m.files
           /\ cacheCall' = [CacheCall("markAsSent", cacheCall.filename, ids)
                              EXCEPT !.threw = m.threw]
    /\ UNCHANGED <<nodeEnv, serviceVars>>
    /\ UNCHANGED unitVars

\* cache.filterNewWorkflows(ids)
CacheFilterNewWorkflows(ids) ==
    /\ pc = "idle"
    /\ Callable
    /\ cacheCall' =
          [CacheCall("filterNewWorkflows", cacheCall.filename, ids)
             EXCEPT !.returned = filterNewWorkflows(files, cacheCall.filename, ids)]
    /\ UNCHANGED <<nodeEnv, files, serviceVars>>
    /\ UNCHANGED unitVars

\* fs.unlinkSync(path) of an existing cache file, under a living instance
Unlink(f) ==
    /\ files[f].kind # "absent"
    /\ files' = [files EXCEPT ![f] = Absent]
    /\ cacheCall' = [NoCacheCall EXCEPT !.filename = cacheCall.filename]
    /\ UNCHANGED <<nodeEnv, serviceVars>>
    /\ UNCHANGED unitVars

\* the method calls on the WorkflowCache instance at hand
CacheMethods ==
    \/ \E id \in WorkflowIds : CacheHasBeenSent(id)
    \/ \E ids \in IdLists : CacheMarkAsSent(ids)
    \/ \E ids \in IdLists : CacheFilterNewWorkflows(ids)

\* what the cache file may hold when the process finds it: nothing, text
\* that is no cache object, or a list of ids written by markAsSent
FoundContents ==
    { Absent, Malformed }
      \cup { Json(s) : s \in { l \in IdLists : Cardinality(Range(l)) = Len(l) } }

InitCache ==
    /\ nodeEnv = "test"
    /\ files \in { [[f \in CacheFiles |-> Absent] EXCEPT ![testFilename] = c] :
                      c \in FoundContents }
    /\ service = NoService
    /\ pc = "idle"
    /\ payload = <<>>
    /\ workflowIds = <<>>
    /\ i = 0
    /\ calls = <<>>
    /\ audit = <<>>
    /\ error = NoError
    /\ reads = 0
    /\ writes = 0
    /\ sentAtStart = <<>>
    /\ okCount = [id \in WorkflowIds |-> 0]
    /\ caughtValue = NoCaught
    /\ cacheCall = NoCacheCall
    /\ UnitInit

NextCache ==
    \/ CacheNew(testFilename)
    \/ CacheMethods
    \/ Unlink(testFilename)

\* the WorkflowCache on its own, over one cache file
SpecCache == InitCache /\ [][NextCache]_vars

\* the one construction of a run of the exporter
ConstructOnce(dryRunOpt, batchSizeOpt, hasApiKey) ==
    service = NoService /\ Construct(dryRunOpt, batchSizeOpt, hasApiKey)

NextFaults ==
    \/ \E d \in DryRunOptions, b \in BatchSizeOptions, k \in BOOLEAN :
          ConstructOnce(d, b, k)
    \/ Calls
    \/ \E f \in Filenames : Unlink(f)

\* a run of the exporter, in either mode, during which a cache file may be
\* removed under the service
SpecFaults == Init /\ [][NextFaults]_vars

NextTests ==
    \/ NextLive
    \/ CacheNew(CacheFilename(FALSE, nodeEnv))
    \/ CacheMethods

\* the DatadogService tests: live services, and between their calls a
\* WorkflowCache over the same file, read and marked directly
SpecTests == Init /\ [][NextTests]_vars

(* --------------------------- logMetricPayload ------------------------- *)

\* new Date(): the time in whole milliseconds
DateNow(t) == t \div TicksPerMs

\* toISOString().replace(/[:.]/g, "-"): the fixed-width fields of the time,
\* here the seconds and the milliseconds within the second
Timestamp(ms) == <<ms \div MsPerSecond, ms % MsPerSecond>>

\* logMetricPayload(body) of a non-empty sub-batch: writeFileSync creates
\* log/<timestamp>.log or replaces what it holds; the call takes time
WriteLog(body) ==
    /\ time < MaxTime
    /\ logDir' = (Timestamp(DateNow(time)) :> body) @@ logDir
    /\ logCount' = logCount + 1
    /\ time' = time + 1
    /\ UNCHANGED <<nodeEnv, files, serviceVars, cacheCall, records, metric,
                   variants>>
    /\ UNCHANGED sideVars

\* time passes between two logMetricPayload calls
Tick ==
    /\ time < MaxTime
    /\ time' = time + 1
    /\ UNCHANGED <<nodeEnv, files, serviceVars, cacheCall, logDir, logCount,
                   records, metric, variants>>
    /\ UNCHANGED sideVars

NextAudit ==
    \/ \E body \in Payloads \ { <<>> } : WriteLog(body)
    \/ Tick

\* the audit writer on its own: the logMetricPayload calls of the submit
\* calls of one or several processes, in the order they are made
SpecAudit == Init /\ [][NextAudit]_vars

\* process.env.NODE_ENV: "test" under jest, something else otherwise
Envs == { "test", "production" }

InitEnv ==
    /\ nodeEnv \in Envs
    /\ files = [f \in CacheFiles |-> Absent]
    /\ service = NoService
    /\ pc = "idle"
    /\ payload = <<>>
    /\ workflowIds = <<>>
    /\ i = 0
    /\ calls = <<>>
    /\ audit = <<>>
    /\ error = NoError
    /\ reads = 0
    /\ writes = 0
    /\ sentAtStart = <<>>
    /\ okCount = [id \in WorkflowIds |-> 0]
    /\ caughtValue = NoCaught
    /\ cacheCall = NoCacheCall
    /\ UnitInit

NextEnv ==
    \/ \E d \in DryRunOptions, b \in BatchSizeOptions, k \in BOOLEAN :
          Construct(d, b, k)
    \/ \E f \in Filenames : CacheNew(f)
    \/ \E id \in WorkflowIds : CacheHasBeenSent(id)

\* services of either mode constructed in either environment, and their
\* cache files looked into through a WorkflowCache
SpecEnv == InitEnv /\ [][NextEnv]_vars

(* ------------------------------ claims -------------------------------- *)

\* the ledger file of live mode, and of the service at hand
LiveFile == CacheFilename(FALSE, nodeEnv)
Ledger == SentSet(files, service.filename)

Live == service # NoService /\ ~service.dryRun

Last(s) == s[Len(s)]

\* the input positions whose series a transport call carried
Carried(call) == { j \in 1 .. Len(payload) : payload[j] \in Range(call.body) }

\* the ids paired, in the input, with the series of the calls that returned
\* success
Confirmed(cs) ==
    { workflowIds[j] : j \in UNION { Carried(cs[c]) :
                                      c \in { d \in 1 .. Len(cs) : cs[d].result = "ok" } } }

\* C1: an id enters the live ledger only in a step in which (or after) the
\* transport call carrying its paired series has returned success, it is an
\* id of the input, and every id the live ledger holds was carried by some
\* transport call that returned success.
C1_MarkedOnlyAfterConfirmation ==
    /\ [](\A id \in SentSet(files, LiveFile) : okCount[id] >= 1)
    /\ [][\A id \in SentSet(files', LiveFile) \ SentSet(files, LiveFile) :
            /\ id \in Range(workflowIds')
            /\ id \in { workflowIds'[j] :
                          j \in UNION { { n \in 1 .. Len(payload') :
                                            payload'[n] \in Range(calls'[c].body) } :
                                        c \in { d \in 1 .. Len(calls') :
                                                  calls'[d].result = "ok" } } }]_vars

\* C1 witness: a live call has returned, with an id in the ledger that one of
\* its confirmed transport calls carried
C1_Witness ==
    /\ Live
    /\ pc = "done"
    /\ Confirmed(calls) \cap Ledger # {}

\* C2: the payload of a transport call in flight holds no series whose paired
\* id is in the ledger of the service (its own earlier calls, or those of an
\* earlier instance over the same file, put it there).
C2_DeliveredNeverResubmitted ==
    pc = "awaiting" =>
        \A j \in 1 .. Len(workflowIds) :
            hasBeenSent(files, service.filename, workflowIds[j])
                => j \notin Carried(Last(calls))

\* C2 witness: a transport call is in flight for a submit whose input names
\* an id the ledger held before the call began
C2_Witness ==
    /\ pc = "awaiting"
    /\ \E j \in 1 .. Len(workflowIds) : workflowIds[j] \in Range(sentAtStart)

\* C3: over all the serialized submit calls made so far, every id has been
\* held by at most one transport call that returned success.
C3_AtMostOneConfirmedCall == \A id \in WorkflowIds : okCount[id] <= 1

\* C3 witness: an id confirmed once is again in the input of a submit that
\* has a transport call in flight
C3_Witness ==
    /\ pc = "awaiting"
    /\ \E j \in 1 .. Len(workflowIds) : okCount[workflowIds[j]] = 1

\* C4: when a live submit call has returned without error, every id of its
\* input is in the live ledger, and every such id that the ledger did not
\* hold when the call began is paired with a series that a transport call of
\* this submit call carried and that returned success.
C4_NoSilentLoss ==
    (pc = "done" /\ Live) =>
        \A id \in Range(workflowIds) :
            /\ id \in SentSet(files, LiveFile)
            /\ id \notin Range(sentAtStart) => id \in Confirmed(calls)

\* C4 witness: a live submit has returned, some of its ids were delivered
\* before it began and some were not
C4_Witness ==
    /\ pc = "done"
    /\ Live
    /\ Range(workflowIds) \cap Range(sentAtStart) # {}
    /\ Range(workflowIds) \ Range(sentAtStart) # {}

\* the step is a repetition of the settled submit call, same arguments
Resubmits == SubmitMetrics(payload, workflowIds)

\* C5 as stated: a live submit call that returned, repeated with the same
\* arguments, makes no transport call, and the two calls together make
\* exactly one.
C5_Original ==
    [][(Live /\ pc = "done" /\ Resubmits)
          => /\ pc' = "done"
             /\ calls' = <<>>
             /\ Len(calls) + Len(calls') = 1]_vars

\* C5 amended: a live submit call that returned without error, repeated with
\* the same arguments, makes no transport call and leaves the ledger as it
\* is; the two calls together make as many transport calls as the first one
\* made, which is one when the input fits one window and names an id that
\* was not delivered before.
C5_RepeatMakesNoCall ==
    [][(Live /\ pc = "done" /\ Resubmits)
          => /\ pc' = "done"
             /\ calls' = <<>>
             /\ files' = files
             /\ (/\ Len(workflowIds) <= service.batchSize
                 /\ Range(workflowIds) \ Range(sentAtStart) # {})
                   => Len(calls) + Len(calls') = 1]_vars

\* C5 witness: a live submit has returned having made no transport call,
\* every id of its non-empty input confirmed once before it began
C5_Witness ==
    /\ Live
    /\ pc = "done"
    /\ calls = <<>>
    /\ workflowIds # <<>>
    /\ \A id \in Range(workflowIds) :
          id \in Range(sentAtStart) /\ okCount[id] = 1

\* a submit call failed on the rejection of its last transport call
TransportFailed ==
    pc = "failed" /\ calls # <<>> /\ Last(calls).result = "rejected"

\* C6 as stated: after a submit call whose transport call for a window
\* failed, the ledger holds no id of that window or of a later window.
C6_Original ==
    TransportFailed =>
        \A j \in (i + 1) .. Len(workflowIds) : workflowIds[j] \notin Ledger

\* C6 amended: after a submit call whose transport call for a window failed,
\* the ledger holds no id of the sub-batch that call carried, and the ids of
\* that window and of later windows that it does hold were delivered before
\* the submit call began or confirmed by an earlier window of it.
C6_FailureMarksNothing ==
    TransportFailed =>
        /\ \A j \in Carried(Last(calls)) : workflowIds[j] \notin Ledger
        /\ \A j \in (i + 1) .. Len(workflowIds) :
              workflowIds[j] \in Ledger
                => workflowIds[j] \in Range(sentAtStart) \cup Confirmed(calls)

\* C6 witness: the transport call of a later window failed, after an earlier
\* window was confirmed, and the failed or a later window names an id
\* delivered before the call began
C6_Witness ==
    /\ TransportFailed
    /\ Len(calls) >= 2
    /\ \E j \in (i + 1) .. Len(workflowIds) : workflowIds[j] \in Range(sentAtStart)

\* C7: a submit call whose series and ids differ in number fails with the
\* mismatch error naming both lengths, having read and written no ledger
\* file, logged no payload and called no transport; the ledger is as it was.
C7_MismatchFailsFirst ==
    (pc # "idle" /\ Len(payload) # Len(workflowIds)) =>
        /\ pc = "failed"
        /\ error = [message |-> "Mismatch between series and workflow IDs",
                    args |-> <<Len(payload), Len(workflowIds)>>]
        /\ reads = 0
        /\ writes = 0
        /\ audit = <<>>
        /\ calls = <<>>
        /\ files[service.filename].sent = sentAtStart

\* C7 witness: a mismatched call has failed over a ledger that holds ids,
\* one of them named by the call
C7_Witness ==
    /\ pc = "failed"
    /\ Len(payload) # Len(workflowIds)
    /\ Range(workflowIds) \cap Range(sentAtStart) # {}

\* the step is the rejection of the transport call in flight
Rejected ==
    /\ pc = "awaiting"
    /\ Len(calls') >= Len(calls)
    /\ calls'[Len(calls)].result = "rejected"

\* C8: the step in which a transport call fails ends the submit call with an
\* error: no further transport call is issued, nothing more is logged, no
\* ledger file is written, and the ids confirmed by earlier windows of the
\* call are still in the ledger.
C8_AbortOnFirstFailure ==
    [][Rejected
          => /\ pc' = "failed"
             /\ error' # NoError
             /\ Len(calls') = Len(calls)
             /\ \A c \in 1 .. Len(calls') : calls'[c].result # "pending"
             /\ audit' = audit
             /\ writes' = writes
             /\ files' = files
             /\ Confirmed(calls) \subseteq SentSet(files', service.filename)]_vars

\* C8 witness: the second transport call of a submit failed after the first
\* was confirmed, with a further window left unprocessed
C8_Witness ==
    /\ TransportFailed
    /\ Len(calls) = 2
    /\ Confirmed(calls) # {}
    /\ i + service.batchSize < Len(workflowIds)

\* the input positions of the window at loop variable `at`
Window(at) ==
    { j \in 1 .. Len(workflowIds) : at < j /\ j <= at + service.batchSize }

\* the positions in S in increasing order
RECURSIVE Ascending(_)
Ascending(S) ==
    IF S = {} THEN <<>>
    ELSE LET low == CHOOSE x \in S : \A y \in S : x <= y
         IN  <<low>> \o Ascending(S \ {low})

\* C9: the transport call in flight belongs to a window cut from the input
\* at a multiple of the batch size, and carries exactly the series at the
\* positions of that window whose id the ledger does not hold, in input
\* order, each with the id of its own position.
C9_PayloadIsWindowMinusLedger ==
    pc = "awaiting" =>
        LET at == Ascending({ j \in Window(i) : workflowIds[j] \notin Ledger })
        IN  /\ i % service.batchSize = 0
            /\ Last(calls).body = [k \in 1 .. Len(at) |-> payload[at[k]]]
            /\ Last(calls).workflowIds = [k \in 1 .. Len(at) |-> workflowIds[at[k]]]

\* C9 witness: 3 pairs, batch size 2, the 2nd id delivered beforehand: the
\* second of two transport calls is in flight, the calls carry series 1 and 3
C9_Witness ==
    /\ pc = "awaiting"
    /\ service.batchSize = 2
    /\ workflowIds = <<1, 2, 3>>
    /\ Range(sentAtStart) = {2}
    /\ Len(calls) = 2
    /\ calls[1].body = <<SeriesValue(1)>>
    /\ calls[2].body = <<SeriesValue(3)>>

\* the ids of the input are pairwise distinct
DistinctIds == Cardinality(Range(workflowIds)) = Len(workflowIds)

\* C10: a live submit call over n pairs with distinct ids, none delivered
\* before, that returned without error (every transport call succeeded) made
\* ceil(n / batchSize) transport calls, the k-th carrying the series at
\* positions (k-1) * batchSize + 1 .. min(k * batchSize, n) in input order.
C10_BatchPartitioning ==
    (/\ Live
     /\ pc = "done"
     /\ DistinctIds
     /\ Range(workflowIds) \cap Range(sentAtStart) = {}) =>
        LET n == Len(payload)
            b == service.batchSize
        IN  /\ Len(calls) = (n + b - 1) \div b
            /\ \A k \in 1 .. Len(calls) :
                  calls[k].body = SubSeq(payload, (k - 1) * b + 1, Min(k * b, n))

\* C10 witness: batch size 2 and 3 fresh pairs: two calls, of sizes 2 and 1
C10_Witness ==
    /\ Live
    /\ pc = "done"
    /\ service.batchSize = 2
    /\ Len(workflowIds) = 3
    /\ DistinctIds
    /\ sentAtStart = <<>>
    /\ Len(calls) = 2
    /\ Len(calls[1].body) = 2
    /\ Len(calls[2].body) = 1

\* the ledger file of dry-run mode
DryFile == CacheFilename(TRUE, nodeEnv)

\* C11: an id no live transport call has delivered is not reported by the
\* live ledger, and no step of a dry-run service changes the set of ids the
\* live ledger records, nor a step of a live service the set the dry-run
\* ledger records.
C11_ModeIsolation ==
    /\ [](\A id \in WorkflowIds :
            okCount[id] = 0 => ~hasBeenSent(files, LiveFile, id))
    /\ [][/\ (service # NoService /\ service.dryRun) =>
              SentSet(files', LiveFile) = SentSet(files, LiveFile)
          /\ Live => SentSet(files', DryFile) = SentSet(files, DryFile)]_vars

\* C11 witness: a dry-run call has returned, and each ledger holds an id the
\* other does not
C11_Witness ==
    /\ service # NoService
    /\ service.dryRun
    /\ pc = "done"
    /\ writes >= 1
    /\ SentSet(files, DryFile) \ SentSet(files, LiveFile) # {}
    /\ SentSet(files, LiveFile) \ SentSet(files, DryFile) # {}

\* C12: the cache file of a service is the one its dryRun flag and the
\* test-or-not environment name, whatever the other options; the four
\* combinations name four different files, and the file exists once the
\* service is constructed.
C12_NamespaceFromModeAndEnv ==
    /\ service # NoService =>
          /\ service.filename = CacheFilename(service.dryRun, nodeEnv)
          /\ service.filename \in Filenames
          /\ files[service.filename].kind = "json"
    /\ \A d \in DryRunOptions, b1, b2 \in BatchSizeOptions :
          NewService(d, b1, nodeEnv).filename = NewService(d, b2, nodeEnv).filename
    /\ \A d1, d2 \in BOOLEAN, e1, e2 \in Envs :
          CacheFilename(d1, e1) = CacheFilename(d2, e2) => d1 = d2 /\ e1 = e2

\* C12 witness: a dry-run service outside the test environment, whose cache
\* file a WorkflowCache over the same name has just read
C12_Witness ==
    /\ service # NoService
    /\ service.dryRun
    /\ nodeEnv # "test"
    /\ cacheCall.op = "hasBeenSent"
    /\ cacheCall.filename = service.filename

\* C13: a submitMetrics call of a dry-run service never reaches the await on
\* the API and issues no API call; when it has returned, one write has
\* marked each logged sub-batch and every id of the input is in the dry-run
\* ledger.
C13_DryRunNeverCallsTransport ==
    (service # NoService /\ service.dryRun) =>
        /\ pc # "awaiting"
        /\ calls = <<>>
        /\ pc = "done" =>
              /\ writes = Len(audit)
              /\ \A j \in 1 .. Len(workflowIds) :
                    workflowIds[j] \in SentSet(files, DryFile)
              /\ \A k \in 1 .. Len(audit) : audit[k] # <<>>

\* C13 witness: a dry-run call over two windows has returned, each window
\* logged and marked
C13_Witness ==
    /\ service # NoService
    /\ service.dryRun
    /\ pc = "done"
    /\ Len(audit) = 2
    /\ writes = 2
    /\ calls = <<>>

\* C14: every id a transport call has confirmed is reported by the live
\* ledger, in every later state and so to every instance constructed later
\* over the same file; a transport call in flight carries only ids never
\* confirmed before, so a call naming confirmed ids alone issues none; and a
\* step that constructs an instance leaves every existing cache file as it
\* is.
C14_RestartDurability ==
    /\ [](\A id \in WorkflowIds :
            okCount[id] >= 1 => hasBeenSent(files, LiveFile, id))
    /\ [](pc = "awaiting" =>
            \A id \in Range(Last(calls).workflowIds) : okCount[id] = 0)
    /\ [][pc' = "idle" =>
            \A f \in CacheFiles :
               files[f].kind = "json" => files'[f] = files[f]]_vars

\* C14 witness: the one call of a newly constructed instance has returned
\* without a transport call, all its ids read from the ledger and confirmed
\* under earlier instances
C14_Witness ==
    /\ Live
    /\ pc = "done"
    /\ calls = <<>>
    /\ Len(workflowIds) >= 2
    /\ reads = Len(workflowIds)
    /\ \A id \in Range(workflowIds) : okCount[id] >= 1 /\ id \in Ledger

\* C15: when the transport call of a submit call was rejected, the call
\* failed with the caught Error itself (its message) if an Error was caught,
\* and with the fixed 'Unknown error submitting metrics' otherwise; the
\* ledger holds what it held when the call began and the sub-batches
\* confirmed since, and no id of the rejected sub-batch.
C15_TransportErrorClassified ==
    TransportFailed =>
        /\ caughtValue \in Rejections
        /\ caughtValue.isError =>
              error = [message |-> caughtValue.message, args |-> <<>>]
        /\ ~caughtValue.isError =>
              error = [message |-> "Unknown error submitting metrics",
                       args |-> <<>>]
        /\ Ledger = Range(sentAtStart)
                      \cup UNION { Range(calls[c].workflowIds) :
                                     c \in { d \in 1 .. Len(calls) :
                                               calls[d].result = "ok" } }
        /\ Range(Last(calls).workflowIds) \cap Ledger = {}

\* C15 witness: the second transport call of a submit call was rejected with
\* a value that is no Error, after the first was confirmed
C15_Witness ==
    /\ TransportFailed
    /\ ~caughtValue.isError
    /\ Len(calls) = 2
    /\ calls[1].result = "ok"

\* a submit call ended in its catch block on what markAsSent threw: in dry-run
\* mode before any API call, in live mode after the API call returned success
LedgerWriteFailed ==
    /\ pc = "failed"
    /\ caughtValue = FsError
    /\ calls = <<>> \/ Last(calls).result = "ok"

\* C16 as stated: a submit call that failed on the ledger write ends there,
\* throws what markAsSent threw, and the catch block classifies it apart from
\* every rejection of the transport.
C16_Original ==
    LedgerWriteFailed =>
        /\ error.message = caughtValue.message
        /\ \A c \in Rejections : CatchLabel(caughtValue) # CatchLabel(c)

\* C16 witness: a live call failed on the ledger write after its transport
\* call was confirmed: delivered, and not recorded
C16_Witness ==
    /\ LedgerWriteFailed
    /\ Live
    /\ \A id \in Range(Last(calls).workflowIds) :
          okCount[id] >= 1 /\ ~hasBeenSent(files, LiveFile, id)

\* C17: hasBeenSent returns, with true exactly when the file parses and its
\* list holds the id, so false for an id never marked and false when the
\* file is missing or is no cache object; the file is as it was.
C17_HasBeenSentFailsOpen ==
    cacheCall.op = "hasBeenSent" =>
        /\ ~cacheCall.threw
        /\ files[cacheCall.filename] = cacheCall.before
        /\ cacheCall.found =
              (/\ cacheCall.before.kind = "json"
               /\ \E k \in 1 .. Len(cacheCall.before.sent) :
                     cacheCall.before.sent[k] = cacheCall.arg[1])

\* C17 witness: hasBeenSent has answered false over a file that is no cache
\* object
C17_Witness ==
    /\ cacheCall.op = "hasBeenSent"
    /\ cacheCall.before.kind = "malformed"
    /\ ~cacheCall.found

\* C18: after a markAsSent that returned, the stored list holds no id twice
\* and records exactly the ids recorded before and the ids given; when every
\* given id was recorded already (or none was given) the list is the one
\* stored before; and marking the same ids again changes nothing.  A
\* markAsSent that threw left the file as it was.
C18_MarkAsSentIdempotent ==
    cacheCall.op = "markAsSent" =>
        LET f == cacheCall.filename
            before == cacheCall.before
            given == Range(cacheCall.arg)
        IN  IF cacheCall.threw
            THEN files[f] = before
            ELSE /\ files[f].kind = "json"
                 /\ Cardinality(Range(files[f].sent)) = Len(files[f].sent)
                 /\ Range(files[f].sent) = Range(before.sent) \cup given
                 /\ given \subseteq Range(before.sent) => files[f] = before
                 /\ markAsSent(files, f, cacheCall.arg).files = files

\* C18 witness: markAsSent was given an id twice and an id stored already
C18_Witness ==
    /\ cacheCall.op = "markAsSent"
    /\ ~cacheCall.threw
    /\ Len(cacheCall.arg) = 3
    /\ cacheCall.arg[1] = cacheCall.arg[3]
    /\ cacheCall.arg[2] \in Range(cacheCall.before.sent)
    /\ cacheCall.arg[1] \notin Range(cacheCall.before.sent)

\* C19: in every step (a construction, a hasBeenSent, filterNewWorkflows or
\* markAsSent call, a stretch of a submit call) each cache file keeps the
\* ids it records, an existing file keeps its list as the front of the new
\* one, and a file that comes into being holds the empty list.
C19_LedgerMonotone ==
    [][\A f \in CacheFiles :
          /\ SentSet(files, f) \subseteq SentSet(files', f)
          /\ files[f].kind = "json" =>
                /\ files'[f].kind = "json"
                /\ Len(files'[f].sent) >= Len(files[f].sent)
                /\ SubSeq(files'[f].sent, 1, Len(files[f].sent)) = files[f].sent
          /\ (files[f].kind = "absent" /\ files'[f].kind # "absent") =>
                files'[f] = Json(<<>>)]_vars

\* C19 witness: a direct markAsSent has added an id to a file that already
\* held an id confirmed by a submit call
C19_Witness ==
    /\ cacheCall.op = "markAsSent"
    /\ Len(files[cacheCall.filename].sent) > Len(cacheCall.before.sent)
    /\ \E id \in Range(cacheCall.before.sent) : okCount[id] >= 1

\* C20: filterNewWorkflows returns the ids of its argument at the positions
\* whose id the file does not record, in the order of the argument, an id
\* as often as it is given; the empty list for the empty list; the file is
\* as it was.
C20_FilterNewWorkflows ==
    cacheCall.op = "filterNewWorkflows" =>
        LET recorded == IF cacheCall.before.kind = "json"
                        THEN Range(cacheCall.before.sent) ELSE {}
            order == Ascending({ k \in 1 .. Len(cacheCall.arg) :
                                   cacheCall.arg[k] \notin recorded })
        IN  /\ cacheCall.returned =
                  [n \in 1 .. Len(order) |-> cacheCall.arg[order[n]]]
            /\ cacheCall.arg = <<>> => cacheCall.returned = <<>>
            /\ files[cacheCall.filename] = cacheCall.before
            /\ ~cacheCall.threw

\* C20 witness: of three ids given, the recorded one was dropped and the
\* unrecorded one, given twice, returned twice
C20_Witness ==
    /\ cacheCall.op = "filterNewWorkflows"
    /\ Len(cacheCall.arg) = 3
    /\ Len(cacheCall.returned) = 2
    /\ cacheCall.returned[1] = cacheCall.returned[2]
    /\ cacheCall.arg[2] \in Range(cacheCall.before.sent)

\* C21: a submit call whose ids (if any) were all in the ledger of its
\* service when it began has returned without error, having logged nothing,
\* called no transport and written no ledger file; the file is as it was.
C21_SteadyStateNoOp ==
    (/\ service # NoService
     /\ pc # "idle"
     /\ Len(payload) = Len(workflowIds)
     /\ \A j \in 1 .. Len(workflowIds) : workflowIds[j] \in Range(sentAtStart))
    => /\ pc = "done"
       /\ error = NoError
       /\ audit = <<>>
       /\ calls = <<>>
       /\ writes = 0
       /\ files[service.filename] = Json(sentAtStart)

\* C21 witness: a call naming three ids, all delivered before, has returned
C21_Witness ==
    /\ Live
    /\ pc = "done"
    /\ Len(workflowIds) = 3
    /\ Range(workflowIds) \subseteq Range(sentAtStart)
    /\ audit = <<>>

\* the positions of window w (from 0) whose id was not in the ledger when
\* the call began and is at no position of an earlier window
NewAt(w) ==
    { j \in Window(w * service.batchSize) :
        /\ workflowIds[j] \notin Range(sentAtStart)
        /\ \A n \in 1 .. (w * service.batchSize) : workflowIds[n] # workflowIds[j] }

\* the windows of the input with such a position, in order
NonEmptyWindows ==
    Ascending({ w \in 0 .. Len(workflowIds) : NewAt(w) # {} })

\* the series at positions S, in input order
SeriesAt(S) == [m \in 1 .. Cardinality(S) |-> payload[Ascending(S)[m]]]

\* C22: no audit record is empty; in live mode there is one audit record per
\* transport call issued, the call in flight or rejected included, holding
\* the body of that call; in dry-run mode a call that returned wrote one
\* ledger mark per audit record; and in both modes a call that returned
\* without error logged, for each window holding a new id and for no other,
\* the series of that window's new ids.
C22_AuditPerSubBatch ==
    (service # NoService /\ Len(payload) = Len(workflowIds)) =>
        /\ \A k \in 1 .. Len(audit) : audit[k] # <<>>
        /\ Live =>
              /\ Len(audit) = Len(calls)
              /\ \A k \in 1 .. Len(calls) : audit[k] = calls[k].body
        /\ (service.dryRun /\ pc = "done") => Len(audit) = writes
        /\ pc = "done" =>
              audit = [n \in 1 .. Len(NonEmptyWindows) |->
                         SeriesAt(NewAt(NonEmptyWindows[n]))]

\* C22 witness: the second transport call of a live submit call was
\* rejected, and its audit record is there
C22_Witness ==
    /\ Live
    /\ TransportFailed
    /\ Len(calls) = 2
    /\ Len(audit) = 2
    /\ audit[2] = calls[2].body

\* C23 as stated: every logMetricPayload call has its own log file: there
\* are as many files in log/ as calls were made.
C23_Original == Cardinality(DOMAIN logDir) = logCount

\* C23 witness: two logMetricPayload calls, made one after the other, have
\* left one log file, holding the payload of the second
C23_Witness ==
    /\ logCount = 2
    /\ Cardinality(DOMAIN logDir) = 1
    /\ \E name \in DOMAIN logDir : Len(logDir[name]) = 2

\* C24: in a live submit call only the last transport call can be pending
\* and every call before it returned success, with one ledger write done per
\* such call; the calls carry positions in input order; and when a call is
\* in flight for the window at i, the ledger has been read for every
\* position up to the end of that window and once per earlier write, and the
\* call carries positions of that window only and no id an earlier call of
\* this submit call delivered.
C24_WindowsSequential ==
    (Live /\ pc # "idle" /\ Len(payload) = Len(workflowIds)) =>
        /\ \A c \in 1 .. Len(calls) :
              calls[c].result = "pending" => (c = Len(calls) /\ pc = "awaiting")
        /\ \A c \in 1 .. (Len(calls) - 1) : calls[c].result = "ok"
        /\ writes = Cardinality({ c \in 1 .. Len(calls) : calls[c].result = "ok" })
        /\ \A c, d \in 1 .. Len(calls) :
              c < d => \A j \in Carried(calls[c]), n \in Carried(calls[d]) : j < n
        /\ pc = "awaiting" =>
              /\ reads = Min(i + service.batchSize, Len(workflowIds))
                           + (Len(calls) - 1)
              /\ Carried(Last(calls)) \subseteq Window(i)
              /\ \A c \in 1 .. (Len(calls) - 1) :
                    Range(calls[c].workflowIds)
                      \cap Range(Last(calls).workflowIds) = {}

\* C24 witness: the transport call of the third window is in flight, after
\* two calls returned success and two ledger writes
C24_Witness ==
    /\ Live
    /\ pc = "awaiting"
    /\ Len(calls) = 3
    /\ writes = 2
    /\ i = 2

\* C25: a transport call in flight carries no id the ledger holds, in a
\* repeated call as in a first one; and a submit call that a transport
\* rejection ended leads, the caller repeating it and the transport not
\* rejecting for ever, to a call that returns with every id of the input in
\* the ledger and each held by exactly one transport call that returned
\* success.
C25_RetryConverges ==
    /\ [](pc = "awaiting" =>
            Range(Last(calls).workflowIds) \cap Ledger = {})
    /\ TransportFailed ~>
          (/\ pc = "done"
           /\ \A j \in 1 .. Len(workflowIds) :
                 workflowIds[j] \in Ledger /\ okCount[workflowIds[j]] = 1)

\* C25 witness: a call has returned after sending the one window its ledger
\* did not cover, the ids of the other input positions delivered before
C25_Witness ==
    /\ Live
    /\ pc = "done"
    /\ Len(calls) = 1
    /\ Len(workflowIds) = 3
    /\ workflowIds[1] \in Range(sentAtStart)
    /\ workflowIds[3] \notin Range(sentAtStart)
    /\ \A j \in 1 .. Len(workflowIds) : okCount[workflowIds[j]] = 1

(* ------------------- a crash after the remote call -------------------- *)

\* the cache files when the process died with a mark written, for
\* comparison
CrashLedgerMarked(fs, f, ids) == markAsSent(fs, f, ids).files

\* the cache files when the process dies between the resolution of
\* metricsApi.submitMetrics and markAsSent: nothing was written
CrashLedger(fs, f, ids) == fs

\* Datadog accepted the sub-batch and the process dies before the
\* continuation after the await runs
Crash ==
    /\ pc = "awaiting"
    /\ okCount' = Tally(okCount, Last(calls).workflowIds)
    /\ files' = CrashLedger(files, service.filename, Last(calls).workflowIds)
    /\ service' = NoService
    /\ pc' = "idle"
    /\ payload' = <<>>
    /\ workflowIds' = <<>>
    /\ i' = 0
    /\ calls' = <<>>
    /\ audit' = <<>>
    /\ error' = NoError
    /\ reads' = 0
    /\ writes' = 0
    /\ sentAtStart' = <<>>
    /\ caughtValue' = NoCaught
    /\ cacheCall' = NoCacheCall
    /\ UNCHANGED nodeEnv
    /\ UNCHANGED unitVars

NextCrash ==
    \/ \E d \in LiveOptions, b \in BatchSizeOptions, k \in BOOLEAN :
          ConstructOnce(d, b, k)
    \/ Calls
    \/ Crash

\* live runs of the exporter, any of which may die while a remote call it
\* awaits has been accepted
SpecCrash == Init /\ [][NextCrash]_vars

\* C26: a process that dies after the remote call was accepted leaves the
\* ids of that sub-batch counted as delivered and out of the ledger; and
\* whatever was delivered before, the remote call in flight for a window
\* carries every position of the window whose id the ledger does not hold,
\* so a later call with the same input sends those ids again.
C26_CrashDuplicates ==
    /\ [][(pc = "awaiting" /\ service' = NoService) =>
            \A id \in Range(Last(calls).workflowIds) :
                /\ okCount'[id] >= 1
                /\ id \notin SentSet(files', service.filename)]_vars
    /\ [](Live /\ pc = "awaiting" =>
            \A j \in Window(i) :
                workflowIds[j] \notin Ledger => j \in Carried(Last(calls)))

\* C26 witness: a remote call in flight carries an id that an earlier
\* remote call already delivered
C26_Witness ==
    /\ Live
    /\ pc = "awaiting"
    /\ \E id \in Range(Last(calls).workflowIds) :
          okCount[id] >= 1 /\ id \notin Ledger

(* -------------------- transformToDatadogMetric ------------------------ *)

\* A JavaScript string is the sequence of its pieces: ":" and " " are one
\* piece each, and every other piece is a run of characters holding neither.
\* A field of a BigQuery row is such a string or null.
Str(s) == [isNull |-> FALSE, str |-> s]
null == [isNull |-> TRUE, str |-> <<>>]

\* a JavaScript number that may be NaN
Num(n) == [nan |-> FALSE, n |-> n]
NaN == [nan |-> TRUE, n |-> 0]

METRIC_NAME == "ci.workflow.duration"
ENV_TAG == <<"env", ":", "ci">>
REQUIRED_TAGS ==
    <<ENV_TAG, <<"project_slug">>, <<"branch">>, <<"workflow">>, <<"status">>>>

\* the rows of the tests and their variations
baseWorkflowData ==
    [minutes |-> Str(<<"15.5">>),
     created_at |-> Str(<<"1970-01-01T00", ":", "00", ":", "01.500Z">>),
     branch |-> Str(<<"master">>),
     workflow_name |-> Str(<<"build_test_deploy">>),
     status |-> Str(<<"success">>),
     project_slug |-> Str(<<"gh/HnryNZ/hnry-rails">>),
     workflow_id |-> Str(<<1>>)]

MinutesValues == { null, Str(<<"15.5">>), Str(<<"abc">>) }

CreatedAtValues ==
    { null, Str(<<"1970-01-01T00", ":", "00", ":", "01.500Z">>),
      Str(<<"yesterday">>) }

BranchValues == { null, Str(<<"master">>), Str(<<"fix/login">>) }

WorkflowNameValues == { null, Str(<<>>), Str(<<"build_test_deploy">>) }

StatusValues ==
    { null, Str(<<>>), Str(<<"success">>), Str(<<"failed">>),
      Str(<<"failure">>), Str(<<"cancelled">>) }

ProjectSlugValues ==
    { null, Str(<<>>), Str(<<" ">>), Str(<<"gh/HnryNZ/hnry-rails">>) }

WorkflowIdValues == { null } \cup { Str(<<id>>) : id \in WorkflowIds }

\* every row over the field values above
Rows ==
    [minutes : MinutesValues, created_at : CreatedAtValues,
     branch : BranchValues, workflow_name : WorkflowNameValues,
     status : StatusValues, project_slug : ProjectSlugValues,
     workflow_id : WorkflowIdValues]

\* the rows of the "multiple records" test, with ids of their own, and two
\* rows that are skipped
ListRows ==
    { [baseWorkflowData EXCEPT !.workflow_id = Str(<<id>>)] :
          id \in WorkflowIds }
      \cup { [baseWorkflowData EXCEPT !.branch = Str(<<"staging">>),
                                       !.status = Str(<<"failed">>),
                                       !.workflow_id = Str(<<NumIds>>)],
             [baseWorkflowData EXCEPT !.status = Str(<<"cancelled">>)],
             [baseWorkflowData EXCEPT !.workflow_id = null] }

\* the data argument: one row of any shape, or up to MaxLen test rows
DataArguments ==
    { <<row>> : row \in Rows }
      \cup UNION { [1 .. n -> ListRows] : n \in 0 .. MaxLen }

\* String.prototype.split(":")
RECURSIVE split(_)
split(s) ==
    IF \A k \in 1 .. Len(s) : s[k] # ":"
    THEN <<s>>
    ELSE LET k == CHOOSE n \in 1 .. Len(s) :
                      s[n] = ":" /\ \A m \in 1 .. (n - 1) : s[m] # ":"
         IN  <<SubSeq(s, 1, k - 1)>> \o split(SubSeq(s, k + 1, Len(s)))

\* String.prototype.trim()
RECURSIVE trim(_)
trim(s) ==
    IF s = <<>> THEN s
    ELSE IF Head(s) = " " THEN trim(Tail(s))
    ELSE IF s[Len(s)] = " " THEN trim(SubSeq(s, 1, Len(s) - 1))
    ELSE s

\* new Date(dateStr).getTime(), in milliseconds
getTime(dateStr) ==
    IF dateStr = <<"1970-01-01T00", ":", "00", ":", "01.500Z">>
    THEN Num(1500)
    ELSE NaN

\* parseFloat, in tenths
parseFloat(str) ==
    IF str = <<"15.5">> THEN Num(155) ELSE NaN

processBranch(branch) ==
    IF branch.isNull THEN <<"null">>
    ELSE IF branch.str \in { <<"master">>, <<"staging">>, <<"uat">> }
    THEN branch.str
    ELSE <<"feature">>

\* processStatus with the literals of the earlier revision, for comparison
processStatusFailure(status) ==
    IF status = <<"success">> \/ status = <<"failure">>
    THEN <<status>>
    ELSE <<>>

\* the StatusType, or no element for null
processStatus(status) ==
    IF status = <<"success">> \/ status = <<"failed">>
    THEN <<status>>
    ELSE <<>>

\* isValidRecord with the check of workflow_id left out, for comparison
isValidRecordNoId(record) ==
    /\ ~record.minutes.isNull
    /\ ~record.created_at.isNull
    /\ ~record.workflow_name.isNull
    /\ ~record.status.isNull
    /\ ~record.project_slug.isNull

isValidRecord(record) ==
    /\ ~record.minutes.isNull
    /\ ~record.created_at.isNull
    /\ ~record.workflow_name.isNull
    /\ ~record.status.isNull
    /\ ~record.project_slug.isNull
    /\ ~record.workflow_id.isNull

\* the ProcessedTags, or no element for null
processTags(data) ==
    IF ~isValidRecord(data) THEN <<>>
    ELSE LET status == processStatus(data.status.str)
         IN  IF status = <<>> THEN <<>>
             ELSE <<[branch |-> processBranch(data.branch),
                     project_slug |-> data.project_slug.str,
                     workflow |-> data.workflow_name.str,
                     status |-> status[1]]>>

\* tags[key] for a key of ProcessedTags
TagField(tags, key) ==
    IF key = "project_slug" THEN tags.project_slug
    ELSE IF key = "branch" THEN tags.branch
    ELSE IF key = "workflow" THEN tags.workflow
    ELSE tags.status

\* the formatted tags, or no element for null
formatTags(tags) ==
    LET formattedTags ==
            <<ENV_TAG,
              <<"project_slug", ":">> \o tags.project_slug,
              <<"branch", ":">> \o tags.branch,
              <<"workflow", ":">> \o tags.workflow,
              <<"status", ":">> \o tags.status>>
        fullTag(tag) ==
            IF tag = ENV_TAG THEN ENV_TAG
            ELSE tag \o <<":">> \o TagField(tags, split(tag)[1][1])
        missingTags ==
            { k \in 1 .. Len(REQUIRED_TAGS) :
                  fullTag(REQUIRED_TAGS[k]) \notin Range(formattedTags) }
        foundMissingValues ==
            \E k \in 1 .. Len(formattedTags) :
                LET parts == split(formattedTags[k])
                IN  Len(parts) < 2 \/ Len(trim(parts[2])) = 0
    IN  IF missingTags # {} THEN <<>>
        ELSE IF foundMissingValues THEN <<>>
        ELSE <<formattedTags>>

\* Math.floor(new Date(dateStr).getTime() / 1000)
parseTimestamp(dateStr) ==
    LET ms == getTime(dateStr)
    IN  IF ms.nan THEN NaN ELSE Num(ms.n \div MsPerSecond)

\* the callback of data.map: the series of a row, or no element for null
SeriesOf(record) ==
    LET tags == processTags(record)
    IN  IF tags = <<>> THEN <<>>
        ELSE LET formattedTags == formatTags(tags[1])
             IN  IF formattedTags = <<>> THEN <<>>
                 ELSE <<[metric |-> METRIC_NAME,
                         type |-> 3,
                         points |->
                           <<[timestamp |-> parseTimestamp(record.created_at.str),
                              value |-> parseFloat(record.minutes.str)]>>,
                         unit |-> "minutes",
                         tags |-> formattedTags[1]]>>

\* data.map(d => d.workflow_id) unfiltered, for comparison
FilterByIndexAll(s, seriesWithNulls) == s

\* s.filter((_, ind) => seriesWithNulls[ind] !== null)
RECURSIVE FilterByIndex(_, _)
FilterByIndex(s, seriesWithNulls) ==
    IF s = <<>> THEN <<>>
    ELSE LET n == Len(s)
             front == FilterByIndex(SubSeq(s, 1, n - 1), seriesWithNulls)
         IN  IF seriesWithNulls[n] # <<>> THEN Append(front, s[n]) ELSE front

\* the result with the workflow id of every row, for comparison
transformToDatadogMetricAllIds(data) ==
    LET seriesWithNulls == [k \in 1 .. Len(data) |-> SeriesOf(data[k])]
        kept == FilterByIndex(seriesWithNulls, seriesWithNulls)
    IN  [returned |-> TRUE,
         series |-> [k \in 1 .. Len(kept) |-> kept[k][1]],
         workflowIds |-> [k \in 1 .. Len(data) |-> data[k].workflow_id]]

\* [{ series }, workflowIds]
transformToDatadogMetric(data) ==
    LET seriesWithNulls == [k \in 1 .. Len(data) |-> SeriesOf(data[k])]
        kept == FilterByIndex(seriesWithNulls, seriesWithNulls)
        series == [k \in 1 .. Len(kept) |-> kept[k][1]]
        ids == FilterByIndex([k \in 1 .. Len(data) |-> data[k].workflow_id],
                             seriesWithNulls)
    IN  [returned |-> TRUE, series |-> series, workflowIds |-> ids]

\* the entry point transforms the rows it read
Transform ==
    /\ ~metric.returned
    /\ metric' = transformToDatadogMetric(records)
    /\ UNCHANGED <<nodeEnv, files, serviceVars, cacheCall, time, logDir,
                   logCount, records, variants>>
    /\ UNCHANGED sideVars

InitTransform ==
    /\ nodeEnv = "test"
    /\ files = [f \in CacheFiles |-> Absent]
    /\ service = NoService
    /\ pc = "idle"
    /\ payload = <<>>
    /\ workflowIds = <<>>
    /\ i = 0
    /\ calls = <<>>
    /\ audit = <<>>
    /\ error = NoError
    /\ reads = 0
    /\ writes = 0
    /\ sentAtStart = <<>>
    /\ okCount = [id \in WorkflowIds |-> 0]
    /\ caughtValue = NoCaught
    /\ cacheCall = NoCacheCall
    /\ time = 0
    /\ logDir = << >>
    /\ logCount = 0
    /\ records \in DataArguments
    /\ metric = NoMetric
    /\ variants = NoVariants
    /\ SideInit

\* transformToDatadogMetric applied to each data argument
SpecTransform == InitTransform /\ [][Transform]_vars

\* the positions of the rows that the callback of data.map gives a series
Accepted == { k \in 1 .. Len(records) : SeriesOf(records[k]) # <<>> }

\* the place in the output of the accepted row at position k
Rank(k) == Cardinality({ m \in Accepted : m <= k })

\* C27: the series list and the workflow id list that
\* transformToDatadogMetric returns have the same length, the number of rows
\* that are not skipped; the entries at a place are the series and the
\* workflow_id of one row, the rows keeping their input order; and no
\* returned id is null.
C27_SeriesAndIdsAligned ==
    metric.returned =>
        /\ Len(metric.series) = Len(metric.workflowIds)
        /\ Len(metric.series) = Cardinality(Accepted)
        /\ \A k \in Accepted :
              /\ metric.series[Rank(k)] = SeriesOf(records[k])[1]
              /\ metric.workflowIds[Rank(k)] = records[k].workflow_id
        /\ \A n \in 1 .. Len(metric.workflowIds) : ~metric.workflowIds[n].isNull

\* C27 witness: of three rows the middle one was skipped, and the two
\* series returned go with the ids of the first and the third row
C27_Witness ==
    /\ metric.returned
    /\ Len(records) = 3
    /\ Accepted = {1, 3}
    /\ records[1].workflow_id # records[2].workflow_id
    /\ records[2].workflow_id # records[3].workflow_id
    /\ ~records[2].workflow_id.isNull
    /\ Len(metric.series) = 2

\* the status tag of a row with this status
StatusTag(status) == <<"status", ":">> \o status.str

\* every series returned goes with a row of one of these statuses, and
\* no more series are returned than there are such rows
OnlyStatuses(statuses) ==
    metric.returned =>
        /\ \A n \in 1 .. Len(metric.series) :
              \E k \in 1 .. Len(records) :
                  /\ records[k].status \in statuses
                  /\ records[k].workflow_id = metric.workflowIds[n]
                  /\ metric.series[n].tags[5] = StatusTag(records[k].status)
        /\ Len(metric.series)
             <= Cardinality({ k \in 1 .. Len(records) :
                                  records[k].status \in statuses })

MustSkip(record) ==
    \/ record.minutes.isNull
    \/ record.created_at.isNull
    \/ record.workflow_name.isNull
    \/ record.status.isNull
    \/ record.project_slug.isNull
    \/ record.workflow_id.isNull
    \/ record.project_slug = Str(<<>>)
    \/ record.workflow_name = Str(<<>>)
    \/ record.status = Str(<<>>)

\* C29: a row with a null minutes, created_at, workflow_name, status,
\* project_slug or workflow_id, or with an empty project_slug, workflow_name
\* or status, gives no series and no id; and a row with a null branch gives
\* a series exactly when the same row with a branch does, its tag being
\* branch:null.
C29_NullAndEmptySkipped ==
    metric.returned =>
        /\ LET passing == { k \in 1 .. Len(records) : ~MustSkip(records[k]) }
           IN  /\ Len(metric.series) <= Cardinality(passing)
               /\ Len(metric.workflowIds) <= Cardinality(passing)
        /\ (Len(records) = 1 /\ records[1].branch.isNull) =>
              /\ Len(metric.series) =
                   Len(transformToDatadogMetric(
                         <<[records[1] EXCEPT !.branch = Str(<<"master">>)]>>
                       ).series)
              /\ \A n \in 1 .. Len(metric.series) :
                    metric.series[n].tags[3] = <<"branch", ":", "null">>

\* C29 witness: a row whose branch is null was transformed
C29_Witness ==
    /\ metric.returned
    /\ Len(records) = 1
    /\ records[1].branch.isNull
    /\ Len(metric.series) = 1

(* ------------------- the two batching strategies ---------------------- *)

\* Both loops are run to their end with every remote call accepted, in live
\* mode, and give the remote calls made (the series sent and the ids marked
\* after each) and the cache files left.

\* the earlier submitMetrics: the ids filtered once, the series sliced at the
\* positions of the filtered list
RECURSIVE PositionalLoop(_, _, _, _, _, _, _)
PositionalLoop(fs, f, series, newWorkflows, batchSize, at, made) ==
    IF at >= Len(newWorkflows)
    THEN [calls |-> made, files |-> fs]
    ELSE LET batchWorkflows == Slice(newWorkflows, at, at + batchSize)
             batchPayload == Slice(series, at, at + batchSize)
             m == markAsSent(fs, f, batchWorkflows)
         IN  PositionalLoop(m.files, f, series, newWorkflows, batchSize,
                            at + batchSize,
                            Append(made, [body |-> batchPayload,
                                          marked |-> batchWorkflows]))

PositionalSlice(fs, f, series, ids, batchSize) ==
    LET newWorkflows == filterNewWorkflows(fs, f, ids)
    IN  IF Len(newWorkflows) = 0
        THEN [calls |-> <<>>, files |-> fs]
        ELSE PositionalLoop(fs, f, series, newWorkflows, batchSize, 0, <<>>)

\* the submitMetrics of the current revision: the pairs cut into windows,
\* each window filtered when it is reached
RECURSIVE PairedLoop(_, _, _, _, _, _)
PairedLoop(fs, f, paired, batchSize, at, made) ==
    IF at >= Len(paired)
    THEN [calls |-> made, files |-> fs]
    ELSE LET batch == Slice(paired, at, at + batchSize)
             newWorkflowPairs == NewWorkflowPairs(fs, f, batch)
         IN  IF Len(newWorkflowPairs) = 0
             THEN PairedLoop(fs, f, paired, batchSize, at + batchSize, made)
             ELSE LET m == markAsSent(fs, f, PairIds(newWorkflowPairs))
                  IN  PairedLoop(m.files, f, paired, batchSize,
                                 at + batchSize,
                                 Append(made,
                                        [body |-> PairPayloads(newWorkflowPairs),
                                         marked |-> PairIds(newWorkflowPairs)]))

PairThenFilter(fs, f, series, ids, batchSize) ==
    PairedLoop(fs, f, Paired(series, ids), batchSize, 0, <<>>)

\* the cache files of a run whose ledger holds the ids of sent
FilesWith(sent) ==
    [f \in CacheFiles |-> IF f = testFilename THEN Json(sent) ELSE Absent]

\* the ledgers a run starts from: the ids 1 .. n delivered, or one id
Ledgers ==
    { [k \in 1 .. n |-> k] : n \in 0 .. NumIds }
      \cup { <<id>> : id \in WorkflowIds }

\* both strategies over one ledger, one input and one batch size
RunVariants(sent, series, ids, batchSizeOpt) ==
    /\ ~variants.ran
    /\ Len(series) = Len(ids)
    /\ LET batchSize == OrElse(batchSizeOpt, DefaultBatchSize)
       IN  variants' =
             [ran |-> TRUE,
              sent |-> Range(sent),
              series |-> series,
              ids |-> ids,
              batchSize |-> batchSize,
              positional |-> PositionalSlice(FilesWith(sent), testFilename,
                                             series, ids, batchSize),
              paired |-> PairThenFilter(FilesWith(sent), testFilename,
                                        series, ids, batchSize)]
    /\ UNCHANGED <<nodeEnv, files, serviceVars, cacheCall, time, logDir,
                   logCount, records, metric>>
    /\ UNCHANGED sideVars

NextVariants ==
    \E sent \in Ledgers, a \in Arguments, b \in BatchSizeOptions :
        RunVariants(sent, a[1], a[2], b)

\* the two submitMetrics revisions side by side
SpecVariants == Init /\ [][NextVariants]_vars

\* the input position of a series of the payload
PosOf(point) == CHOOSE k \in 1 .. Len(variants.series) : variants.series[k] = point

\* the ids paired with the series a remote call carried
IdsOfBody(call) ==
    [k \in 1 .. Len(call.body) |-> variants.ids[PosOf(call.body[k])]]

\* the positional-slice run sent a series whose id was delivered before
SentDelivered ==
    \E c \in 1 .. Len(variants.positional.calls) :
        \E id \in Range(IdsOfBody(variants.positional.calls[c])) :
            id \in variants.sent

\* the positional-slice run marked an id none of whose series it sent
MarkedUnsent ==
    \E c \in 1 .. Len(variants.positional.calls) :
        \E id \in Range(variants.positional.calls[c].marked) :
            \A d \in 1 .. Len(variants.positional.calls) :
                id \notin Range(IdsOfBody(variants.positional.calls[d]))

\* the ids given to the two runs are distinct
VariantIdsDistinct ==
    \A j, k \in 1 .. Len(variants.ids) :
        variants.ids[j] = variants.ids[k] => j = k

\* a delivered id stands in the input before one that is not delivered
DeliveredBeforeNew ==
    \E j, k \in 1 .. Len(variants.ids) :
        /\ j < k
        /\ variants.ids[j] \in variants.sent
        /\ variants.ids[k] \notin variants.sent

C34_DryRunsConverge ==
    /\ [](service.dryRun /\ pc = "done" =>
            /\ Range(workflowIds) \subseteq Ledger
            /\ Range(workflowIds) \subseteq Range(sentAtStart) =>
                  /\ audit = <<>>
                  /\ calls = <<>>
                  /\ writes = 0
                  /\ files[service.filename].sent = sentAtStart)
    /\ [][(pc = "done" /\ service.dryRun /\ pc' # "idle") =>
            /\ pc' = "done"
            /\ audit' = <<>>
            /\ calls' = <<>>
            /\ writes' = 0
            /\ files' = files]_vars

\* C34 witness: a dry-run call over three pairs, every id of which the
\* dry-run ledger held when it began, has returned without a log or a write
C34_Witness ==
    /\ service # NoService
    /\ service.dryRun
    /\ pc = "done"
    /\ Len(workflowIds) = 3
    /\ Range(workflowIds) \subseteq Range(sentAtStart)
    /\ audit = <<>>
    /\ writes = 0
    /\ reads = 3
    /\ files[CacheFilename(FALSE, nodeEnv)].sent = <<>>

\* ceil(n / b)
CeilDiv(n, b) == (n + b - 1) \div b

\* C35: whatever the ledger holds and however the remote calls end, every
\* remote call of a submit call carries at least one and at most batchSize
\* series, and the submit call makes at most ceil(n / batchSize) of them for
\* its n pairs.
C35_WindowBounds ==
    (service # NoService /\ service.batchSize >= 1) =>
        /\ \A c \in 1 .. Len(calls) :
              /\ Len(calls[c].body) >= 1
              /\ Len(calls[c].body) <= service.batchSize
        /\ Len(calls) <= CeilDiv(Len(payload), service.batchSize)

\* C35 witness: three pairs in windows of two took two remote calls, the
\* first of them full
C35_Witness ==
    /\ Live
    /\ service.batchSize = 2
    /\ Len(payload) = 3
    /\ Len(calls) = 2
    /\ Len(calls[1].body) = 2
    /\ Len(calls[2].body) = 1

\* C36: the remote call in flight carries every position of its window
\* whose id the ledger does not hold, two positions of one id included; and
\* no remote call carries an id that an earlier remote call of the same
\* submit call delivered.
C36_RepeatedIds ==
    (Live /\ Len(payload) = Len(workflowIds)) =>
        /\ pc = "awaiting" =>
              \A j, k \in Window(i) :
                  (workflowIds[j] = workflowIds[k] /\ workflowIds[j] \notin Ledger)
                      => (j \in Carried(Last(calls)) /\ k \in Carried(Last(calls)))
        /\ \A c, d \in 1 .. Len(calls) :
              (c < d /\ calls[c].result = "ok") =>
                  \A j \in Carried(calls[d]) :
                      workflowIds[j] \notin Range(calls[c].workflowIds)

\* C36 witness: of three pairs with one id in windows of two, the first two
\* went in one remote call and the third was filtered out
C36_Witness ==
    /\ Live
    /\ pc = "done"
    /\ service.batchSize = 2
    /\ Len(workflowIds) = 3
    /\ workflowIds[1] = workflowIds[2]
    /\ workflowIds[2] = workflowIds[3]
    /\ Len(calls) = 1
    /\ Carried(calls[1]) = {1, 2}

(* ---------------------- a spoiled cache file --------------------------- *)

\* between two submit calls the cache file of the service is removed, or
\* overwritten with text that is no cache object
Spoil(content) ==
    /\ service # NoService
    /\ pc = "idle"
    /\ files[service.filename].kind = "json"
    /\ files' = [files EXCEPT ![service.filename] = content]
    /\ cacheCall' = NoCacheCall
    /\ UNCHANGED <<nodeEnv, serviceVars>>
    /\ UNCHANGED unitVars

NextSpoiled ==
    \/ \E d \in LiveOptions, b \in BatchSizeOptions, k \in BOOLEAN :
          ConstructOnce(d, b, k)
    \/ \E content \in { Absent, Malformed } : Spoil(content)
    \/ Calls

\* a live run of the exporter whose cache file may be spoiled under it
SpecSpoiled == Init /\ [][NextSpoiled]_vars

\* the live service cannot read its cache file
Spoiled == Live /\ ReadThrows(files, service.filename)

\* C37: a live submit call over a non-empty input whose cache file cannot be
\* read never returns without error; it makes one remote call, for its
\* whole first window; when that call succeeded it ends on the error of the
\* ledger write, with nothing written and no later window reached; and no
\* step changes the unreadable file, so a repeated call does the same.
C37_UnreadableLedger ==
    /\ [](Spoiled /\ Len(payload) = Len(workflowIds) /\ Len(payload) > 0 =>
            /\ pc # "done"
            /\ pc \in {"awaiting", "failed"} =>
                  /\ i = 0
                  /\ writes = 0
                  /\ Len(calls) = 1
                  /\ calls[1].body = Slice(payload, 0, service.batchSize)
                  /\ calls[1].workflowIds = Slice(workflowIds, 0, service.batchSize)
            /\ (pc = "failed" /\ calls[1].result = "ok") =>
                  /\ caughtValue = FsError
                  /\ error.message = FsError.message)
    /\ [][Spoiled => files' = files]_vars

\* C37 witness: with the cache file overwritten by other text, the first of
\* three windows was delivered twice, by a call and its repetition, and the
\* repetition ended on the ledger write
C37_Witness ==
    /\ Spoiled
    /\ files[service.filename] = Malformed
    /\ LedgerWriteFailed
    /\ service.batchSize = 1
    /\ Len(workflowIds) = 3
    /\ workflowIds[1] # workflowIds[2]
    /\ okCount[workflowIds[1]] = 2
    /\ okCount[workflowIds[2]] = 0

(* ------------------- a log directory that fails ------------------------ *)

\* the exporter starts with a log directory that can be written, or one
\* that cannot
InitLogs ==
    /\ nodeEnv = "test"
    /\ files = [f \in CacheFiles |-> Absent]
    /\ service = NoService
    /\ pc = "idle"
    /\ payload = <<>>
    /\ workflowIds = <<>>
    /\ i = 0
    /\ calls = <<>>
    /\ audit = <<>>
    /\ error = NoError
    /\ reads = 0
    /\ writes = 0
    /\ sentAtStart = <<>>
    /\ okCount = [id \in WorkflowIds |-> 0]
    /\ caughtValue = NoCaught
    /\ cacheCall = NoCacheCall
    /\ time = 0
    /\ logDir = << >>
    /\ logCount = 0
    /\ records = <<>>
    /\ metric = NoMetric
    /\ variants = NoVariants
    /\ logFails \in BOOLEAN
    /\ other = NoOther
    /\ race = NoRace
    /\ loop = NoLoop
    /\ run = NoRun

NextLogs ==
    \/ \E d \in DryRunOptions, b \in BatchSizeOptions, k \in BOOLEAN :
          ConstructOnce(d, b, k)
    \/ Calls

\* a run of the exporter, in either mode, over either log directory
SpecLogs == InitLogs /\ [][NextLogs]_vars

\* what the submit call at hand does up to its first await, return or throw
\* when logMetricPayload returns
WithLogWritten ==
    LET begun == [files EXCEPT ![service.filename] = Json(sentAtStart)]
        st == Stretch(begun, <<>>, 0, 0)
        paired == Paired(payload, workflowIds)
        batch == Slice(paired, 0, service.batchSize)
        new == NewWorkflowPairs(begun, service.filename, batch)
    IN  [calls |-> IF CallsTransport(service) /\ Len(new) > 0
                   THEN <<[body |-> PairPayloads(new),
                           workflowIds |-> PairIds(new),
                           result |-> "pending"]>>
                   ELSE <<>>,
         marks |-> ~CallsTransport(service) /\ Len(new) > 0]

\* C33 as stated: with the log written or not, a submit call over one
\* window makes the same remote call and the same ledger write - the remote
\* call of a live service, the ledger write of a dry-run one.
C33_Original ==
    (/\ service # NoService
     /\ pc # "idle"
     /\ Len(payload) = Len(workflowIds)
     /\ Len(payload) <= service.batchSize
     /\ Len(calls) <= 1
     /\ calls # <<>> => Last(calls).result = "pending") =>
        /\ calls = WithLogWritten.calls
        /\ (writes > 0) = WithLogWritten.marks

\* C33 witness: a live submit call over an undelivered id ended on what
\* logMetricPayload threw, before any remote call and outside the catch
\* block
C33_Witness ==
    /\ Live
    /\ logFails
    /\ pc = "failed"
    /\ Len(workflowIds) = 1
    /\ workflowIds[1] \notin Ledger
    /\ calls = <<>>
    /\ audit = <<>>
    /\ caughtValue = NoCaught
    /\ error.message = FsError.message

(* ------------------- two submit calls that overlap --------------------- *)

\* the cache files as a filter would see them if the ids of the remote call
\* in flight were held back, for comparison
SeenByOtherReserved(fs, f, pending) == markAsSent(fs, f, pending).files

\* the cache files the filter of a second call sees while a first call
\* awaits: the ids in flight are recorded nowhere
SeenByOther(fs, f, pending) == fs

\* the state both calls leave to a stretch of the second one
OtherStretch(fs) == Stretch(fs, <<>>, 0, 0)

\* service.submitMetrics(payload, workflowIds) called again on the same
\* service while the first call is suspended in its remote call
OtherSubmit(series, ids) ==
    /\ Live
    /\ pc = "awaiting"
    /\ other.pc = "idle"
    /\ Len(series) = Len(ids)
    /\ LET seen == SeenByOther(files, service.filename, Last(calls).workflowIds)
           r == ProcessBatches(service, Paired(series, ids), 0, OtherStretch(seen))
       IN  other' = [pc |-> r.pc, payload |-> series, workflowIds |-> ids,
                     i |-> r.i, calls |-> Issued(r),
                     inFlight |-> Range(Last(calls).workflowIds),
                     sentAtStart |-> Ledger]
    /\ UNCHANGED <<nodeEnv, files, serviceVars, cacheCall>>
    /\ UNCHANGED <<time, logDir, logCount, records, metric, variants>>
    /\ UNCHANGED <<logFails, race, loop, run>>

\* the remote call of the second submit call resolves
OtherResolves ==
    /\ other.pc = "awaiting"
    /\ LET call == Last(other.calls)
           done == [other.calls EXCEPT ![Len(other.calls)].result = "ok"]
           m == markAsSent(files, service.filename, call.workflowIds)
           r == ProcessBatches(service, Paired(other.payload, other.workflowIds),
                               other.i + service.batchSize, OtherStretch(m.files))
       IN  /\ okCount' = Tally(okCount, call.workflowIds)
           /\ files' = r.files
           /\ other' = [other EXCEPT !.pc = r.pc, !.i = r.i,
                                     !.calls = done \o Issued(r)]
    /\ UNCHANGED <<nodeEnv, service, pc, payload, workflowIds, i, calls, audit,
                   error, reads, writes, sentAtStart, caughtValue, cacheCall>>
    /\ UNCHANGED <<time, logDir, logCount, records, metric, variants>>
    /\ UNCHANGED <<logFails, race, loop, run>>

\* the remote call of the second submit call rejects
OtherRejects ==
    /\ other.pc = "awaiting"
    /\ other' = [other EXCEPT
                   !.pc = "failed",
                   !.calls = [@ EXCEPT ![Len(@)].result = "rejected"]]
    /\ UNCHANGED <<nodeEnv, files, serviceVars, cacheCall>>
    /\ UNCHANGED <<time, logDir, logCount, records, metric, variants>>
    /\ UNCHANGED <<logFails, race, loop, run>>

NextOverlap ==
    \/ \E d \in LiveOptions, b \in BatchSizeOptions, k \in BOOLEAN :
          ConstructOnce(d, b, k)
    \/ \E a \in Arguments : FirstCall(a[1], a[2])
    \/ TransportResolves
    \/ \E caught \in Rejections : TransportRejects(caught)
    \/ \E a \in Arguments : OtherSubmit(a[1], a[2])
    \/ OtherResolves
    \/ OtherRejects

\* one live service whose caller does not wait for a submit call to settle
\* before it makes a second one
SpecOverlap == Init /\ [][NextOverlap]_vars

\* the ids the remote calls of a submit call carried
IdsCalled(made) == UNION { Range(made[c].workflowIds) : c \in 1 .. Len(made) }

\* C31 as stated: of two overlapping submit calls that both returned, each
\* sent in a remote call every id they share that was not delivered when the
\* second began.
C31_Original ==
    (Live /\ pc = "done" /\ other.pc = "done") =>
        \A id \in Range(workflowIds) \cap Range(other.workflowIds) :
            id \notin other.sentAtStart =>
                (id \in IdsCalled(calls) /\ id \in IdsCalled(other.calls))

\* no id is delivered twice unless a second call was begun during a first
DeliveredTwiceOnlyByOverlap ==
    \A id \in WorkflowIds : okCount[id] >= 2 => other.pc # "idle"

\* C31: a second submit call begun while the first awaits a remote call
\* sends, in a remote call for its first window, every id of that window
\* that the call in flight carries; an id is delivered twice in a run only
\* when two calls overlapped; and an id that both calls sent was not in the
\* ledger when the second began.
C31_OverlapDuplicates ==
    /\ DeliveredTwiceOnlyByOverlap
    /\ (Live /\ other.pc # "idle") =>
        /\ \A id \in other.inFlight
                       \cap Range(Slice(other.workflowIds, 0, service.batchSize)) :
              /\ other.calls # <<>>
              /\ id \in Range(other.calls[1].workflowIds)
        /\ \A id \in IdsCalled(calls) \cap IdsCalled(other.calls) :
              id \notin other.sentAtStart

\* C31 witness: both calls returned and an id they share was delivered by
\* each of them
C31_Witness ==
    /\ Live
    /\ pc = "done"
    /\ other.pc = "done"
    /\ \E id \in other.inFlight :
          /\ id \in IdsCalled(other.calls)
          /\ okCount[id] = 2

(* ------------- markAsSent in several processes at once ----------------- *)

\* the exporter processes that share one cache directory
Procs == { "a", "b" }

\* the ids one markAsSent call is given: those of a sub-batch
SubBatches == UNION { [1 .. n -> WorkflowIds] : n \in 1 .. MaxBatch }

\* the text writeFileSync has in the file between opening it and writing
Truncated == [kind |-> "malformed", sent |-> <<>>]

NoMarkCall == [pc |-> "idle", ids |-> <<>>, data |-> <<>>]

\* the cache file exists, empty or holding an id, and no process has called
\* markAsSent yet
InitRace ==
    /\ nodeEnv = "test"
    /\ files = [f \in CacheFiles |-> Absent]
    /\ service = NoService
    /\ pc = "idle"
    /\ payload = <<>>
    /\ workflowIds = <<>>
    /\ i = 0
    /\ calls = <<>>
    /\ audit = <<>>
    /\ error = NoError
    /\ reads = 0
    /\ writes = 0
    /\ sentAtStart = <<>>
    /\ okCount = [id \in WorkflowIds |-> 0]
    /\ caughtValue = NoCaught
    /\ cacheCall = NoCacheCall
    /\ time = 0
    /\ logDir = << >>
    /\ logCount = 0
    /\ records = <<>>
    /\ metric = NoMetric
    /\ variants = NoVariants
    /\ logFails = FALSE
    /\ other = NoOther
    /\ \E held \in { <<>>, <<NumIds>> } :
          race = [started |-> TRUE,
                  held |-> held,
                  file |-> Json(held),
                  procs |-> [p \in Procs |-> NoMarkCall]]
    /\ loop = NoLoop
    /\ run = NoRun

RaceUnchanged ==
    /\ UNCHANGED <<nodeEnv, files, serviceVars, cacheCall>>
    /\ UNCHANGED <<time, logDir, logCount, records, metric, variants>>
    /\ UNCHANGED <<logFails, other, loop, run>>

\* markAsSent, line 38: JSON.parse(readFileSync(path)); a file that does not
\* parse makes the call throw
MarkRead(p, ids) ==
    /\ race.procs[p].pc = "idle"
    /\ race' = [race EXCEPT
                  !.procs[p] =
                      IF race.file.kind = "json"
                      THEN [pc |-> "read", ids |-> ids, data |-> race.file.sent]
                      ELSE [pc |-> "threw", ids |-> ids, data |-> <<>>]]
    /\ RaceUnchanged

\* markAsSent, line 40: writeFileSync opens the file, which empties it
MarkOpen(p) ==
    /\ race.procs[p].pc = "read"
    /\ race' = [race EXCEPT !.procs[p].pc = "opened", !.file = Truncated]
    /\ RaceUnchanged

\* markAsSent, line 40: writeFileSync writes the new list and returns
MarkWrite(p) ==
    /\ race.procs[p].pc = "opened"
    /\ race' = [race EXCEPT
                  !.procs[p].pc = "returned",
                  !.file = Json(Dedup(race.procs[p].data \o race.procs[p].ids))]
    /\ RaceUnchanged

NextRace ==
    \E p \in Procs :
        \/ \E ids \in SubBatches : MarkRead(p, ids)
        \/ MarkOpen(p)
        \/ MarkWrite(p)

\* one markAsSent call in each process, their file operations interleaved
SpecRace == InitRace /\ [][NextRace]_vars

\* C32 as stated: once the markAsSent calls of the processes have all
\* returned, the cache file holds every id it held before and every id
\* any of them was given.
C32_Original ==
    (\A p \in Procs : race.procs[p].pc = "returned") =>
        /\ race.file.kind = "json"
        /\ Range(race.held) \subseteq Range(race.file.sent)
        /\ \A p \in Procs :
              Range(race.procs[p].ids) \subseteq Range(race.file.sent)

\* C32 witness: both calls returned and the id one of them was given is not
\* in the file
C32_Witness ==
    /\ \A p \in Procs : race.procs[p].pc = "returned"
    /\ race.file.kind = "json"
    /\ \E p \in Procs :
          Range(race.procs[p].ids) \cap Range(race.file.sent) = {}

(* --------------- the for loop, one iteration at a time ----------------- *)

\* the iterations counted, beyond which the count stays
IterCap == MaxLen + 2

\* the batchSize options a caller may pass: the constructor takes any number
AnyBatchSizeOptions == BatchSizeOptions \cup { Given(0) }

\* a loop variable that grows by one whatever the batch size, for
\* comparison
AdvanceByOne(at, batchSize) == at + 1

\* i += this.batchSize
Advance(at, batchSize) == at + batchSize

\* the ledgers a submit call finds: nothing delivered, one id delivered,
\* every id delivered
LoopLedgers == { {}, {1}, WorkflowIds }

LoopUnchanged ==
    /\ UNCHANGED <<nodeEnv, files, serviceVars, cacheCall>>
    /\ UNCHANGED <<time, logDir, logCount, records, metric, variants>>
    /\ UNCHANGED <<logFails, other, race, run>>

\* submitMetrics of a live service with this batchSize option is called
\* with n pairs, the ledger holding the ids of sent: the loop is entered
LoopEnter(ids, batchSizeOpt, sent) ==
    /\ ~loop.started
    /\ loop' = [started |-> TRUE,
                ids |-> ids,
                batchSize |-> OrElse(batchSizeOpt, DefaultBatchSize),
                sent |-> sent,
                i |-> 0,
                iterations |-> 0,
                pc |-> "loop"]
    /\ LoopUnchanged

\* the loop test and, when it passes, the window up to the await or the
\* continue
LoopIterate ==
    /\ loop.started
    /\ loop.pc = "loop"
    /\ IF loop.i >= Len(loop.ids)
       THEN loop' = [loop EXCEPT !.pc = "done"]
       ELSE LET batch == Slice(loop.ids, loop.i, loop.i + loop.batchSize)
                new == SelectSeq(batch, LAMBDA id : id \notin loop.sent)
                counted == Min(loop.iterations + 1, IterCap)
            IN  IF Len(new) = 0
                THEN loop' = [loop EXCEPT !.iterations = counted,
                                          !.i = Advance(@, loop.batchSize)]
                ELSE loop' = [loop EXCEPT !.iterations = counted,
                                          !.pc = "awaiting"]
    /\ LoopUnchanged

\* the remote call returns: the sub-batch is marked and the loop goes on
LoopResolves ==
    /\ loop.started
    /\ loop.pc = "awaiting"
    /\ LET batch == Slice(loop.ids, loop.i, loop.i + loop.batchSize)
       IN  loop' = [loop EXCEPT !.sent = @ \cup Range(batch),
                                !.i = Advance(@, loop.batchSize),
                                !.pc = "loop"]
    /\ LoopUnchanged

\* the remote call rejects: the catch block throws out of the loop
LoopRejects ==
    /\ loop.started
    /\ loop.pc = "awaiting"
    /\ loop' = [loop EXCEPT !.pc = "failed"]
    /\ LoopUnchanged

LoopReturns == LoopResolves \/ LoopRejects

NextLoop ==
    \/ \E ids \in IdLists, b \in AnyBatchSizeOptions, sent \in LoopLedgers :
          LoopEnter(ids, b, sent)
    \/ LoopIterate
    \/ LoopResolves
    \/ LoopRejects

\* one submit call, its loop running for as long as it can and every
\* remote call returning
SpecLoop ==
    /\ Init
    /\ [][NextLoop]_vars
    /\ WF_vars(LoopIterate)
    /\ WF_vars(LoopReturns)

\* C38: with a batch size of at least 1 the loop of a submit call over n
\* pairs runs at most ceil(n / batchSize) iterations and, every remote call
\* returning, the call ends; with a batch size of 0, which the constructor
\* accepts, and a non-empty input the loop variable stays at 0 and the call
\* never ends.
C38_Termination ==
    /\ [](loop.started /\ loop.batchSize >= 1 =>
            loop.iterations <= CeilDiv(Len(loop.ids), loop.batchSize))
    /\ (loop.started /\ loop.batchSize >= 1)
          ~> (loop.started /\ loop.pc \in {"done", "failed"})
    /\ [](loop.started /\ loop.batchSize = 0 /\ Len(loop.ids) > 0 =>
            loop.pc = "loop" /\ loop.i = 0)

\* C38 witness: with batchSize 0 the loop has run more iterations than the
\* input has pairs and is where it began
C38_Witness ==
    /\ loop.started
    /\ loop.batchSize = 0
    /\ Len(loop.ids) = 1
    /\ loop.iterations = IterCap
    /\ loop.i = 0
    /\ loop.pc = "loop"

(* --------------------------- the entry point --------------------------- *)

\* how processFile ends for a file: readFileSync, JSON.parse or
\* transformToDatadogMetric throws, submitMetrics rejects, or all is well
SyncFailures == { "read", "parse", "transform" }
FileOutcomes == SyncFailures \cup { "submit", "ok" }

\* what readdirSync gives: it throws, or lists this many .json files
Listings == { [threw |-> TRUE, count |-> 0] }
              \cup { [threw |-> FALSE, count |-> n] : n \in 0 .. MaxFiles }

\* a loop over the files that ends at the first file that failed, for
\* comparison
NextFileHalts(k, count, outcome) == IF outcome = "ok" THEN k + 1 ELSE count + 1

\* for (const file of files): the catch block of processFile swallows the
\* error, so the loop goes on to the next file whatever the outcome
NextFile(k, count, outcome) == k + 1

\* main() from the call of processFile for file k up to its next await:
\* processFile runs up to its await of submitMetrics, or into its catch
\* block; past the last file main returns
StartFile(r, k, outcome) ==
    IF k > r.count
    THEN [r EXCEPT !.pc = "completed", !.k = k]
    ELSE IF outcome \in SyncFailures
    THEN [r EXCEPT !.pc = "settled", !.k = k, !.outcomes = Append(@, outcome)]
    ELSE [r EXCEPT !.pc = "submitting", !.k = k, !.pending = outcome]

RunUnchanged ==
    /\ UNCHANGED <<nodeEnv, files, serviceVars, cacheCall>>
    /\ UNCHANGED <<time, logDir, logCount, records, metric, variants>>
    /\ UNCHANGED <<logFails, other, race, loop>>

\* main() up to its first await or its end
MainStart(hasApiKey, listing, outcome) ==
    /\ ~run.started
    /\ LET begun == [started |-> TRUE, pc |-> "listing", count |-> 0, k |-> 0,
                     outcomes |-> <<>>, pending |-> "none", exitCode |-> 0,
                     cause |-> "none"]
       IN  run' =
             IF ~hasApiKey
             THEN [begun EXCEPT !.pc = "exited", !.exitCode = 1,
                                !.cause = "constructor"]
             ELSE IF listing.threw
             THEN [begun EXCEPT !.pc = "exited", !.exitCode = 1,
                                !.cause = "readdir"]
             ELSE IF listing.count = 0
             THEN [begun EXCEPT !.pc = "returned"]
             ELSE StartFile([begun EXCEPT !.count = listing.count], 1, outcome)
    /\ RunUnchanged

\* submitMetrics settles: processFile logs and returns, and main goes on
\* with the next file
SubmitSettles(outcome) ==
    /\ run.started
    /\ run.pc = "submitting"
    /\ run' = StartFile([run EXCEPT !.outcomes = Append(@, run.pending),
                                    !.pending = "none"],
                        NextFile(run.k, run.count, run.pending), outcome)
    /\ RunUnchanged

\* the promise of a processFile that caught an error before its await
\* resolves, and main goes on with the next file
CaughtSettles(outcome) ==
    /\ run.started
    /\ run.pc = "settled"
    /\ run' = StartFile(run, NextFile(run.k, run.count, Last(run.outcomes)),
                        outcome)
    /\ RunUnchanged

NextRun ==
    \/ \E k \in BOOLEAN, listing \in Listings, outcome \in FileOutcomes :
          MainStart(k, listing, outcome)
    \/ \E outcome \in FileOutcomes : SubmitSettles(outcome)
    \/ \E outcome \in FileOutcomes : CaughtSettles(outcome)

\* one run of the entry point
SpecRun == Init /\ [][NextRun]_vars

\* C39: main() has one file in hand at a time, the files before it settled
\* in order and the files after it not begun; whatever the outcomes of the
\* files, main ends after the last one with every file processed and no
\* failure exit; and it exits with failure only for an error of the
\* constructor or of the directory listing, before any file.
C39_EntryPoint ==
    run.started =>
        /\ run.pc = "submitting" =>
              /\ run.k \in 1 .. run.count
              /\ Len(run.outcomes) = run.k - 1
        /\ run.pc = "settled" =>
              /\ run.k \in 1 .. run.count
              /\ Len(run.outcomes) = run.k
        /\ run.pc = "completed" =>
              /\ Len(run.outcomes) = run.count
              /\ run.exitCode = 0
        /\ (run.exitCode = 1) =
              (run.pc = "exited" /\ run.cause \in {"constructor", "readdir"})
        /\ run.exitCode = 1 => run.outcomes = <<>>

\* C39 witness: of three files the first could not be read and the second
\* was rejected by submitMetrics; the third was processed and main ended
\* normally
C39_Witness ==
    /\ run.started
    /\ run.pc = "completed"
    /\ run.outcomes = <<"read", "submit", "ok">>
    /\ run.exitCode = 0

====
